---------------------------- MODULE Spec2Model ----------------------------
(***************************************************************************)
(* Conversation bridge of teams-helpdesk-bridge: the message router        *)
(* (app/core/router.py) over the conversations table (app/database.py),    *)
(* the retry policy, the platform client factory, the Freshchat webhook    *)
(* handler and the tenant-scoped webhook endpoints.                        *)
(*                                                                         *)
(* Spec       the router: concurrent handle_teams_message and              *)
(*            handle_webhook tasks over the conversations table            *)
(***************************************************************************)
EXTENDS Integers, Sequences, FiniteSets, TLC

(***************************************************************************)
(* Bounds of the model.                                                    *)
(***************************************************************************)
MaxChat == 2          \* concurrent/sequential handle_teams_message tasks
MaxHooks == 1         \* handle_webhook tasks
MaxTeamsConvs == 1    \* distinct Teams conversation ids
MaxBackendConvs == 2  \* backend conversations createConversation may open

ChatTasks == 1..MaxChat
HookTasks == 1..MaxHooks
TeamsConvs == 1..MaxTeamsConvs

(***************************************************************************)
(* Values.  A backend id is <<"guid", n>> (Freshchat conversation_id) or   *)
(* <<"num", n>> (numeric id, Zendesk ticket id); None is the empty tuple.  *)
(***************************************************************************)
None == <<>>
Guid(n) == <<"guid", n>>
Num(n) == <<"num", n>>
Platform == "freshchat"

\* What client.create_conversation may return for the n-th backend
\* conversation: the dict's "conversation_id" and "id" entries.
CreateResults(n) ==
    { [conversation_id |-> Guid(n), id |-> Num(n)],
      [conversation_id |-> Guid(n), id |-> None],
      [conversation_id |-> Num(n),  id |-> Num(n)],
      [conversation_id |-> None,    id |-> Num(n)] }

(***************************************************************************)
(* The conversations table: a set of rows.  The operations below are the   *)
(* queries of app/database.py; `rows` is the table.                        *)
(***************************************************************************)
\* .eq("teams_conversation_id", ..).eq("platform", ..).limit(1): the rows
\* the query may return (the caller takes any one, or None when empty).
get_conversation_by_teams_id(rows, teams_conversation_id, platform) ==
    { r \in rows : /\ r.teams_conversation_id = teams_conversation_id
                   /\ r.platform = platform }

\* .eq("platform_conversation_id", ..).eq("platform", ..).limit(1)
get_conversation_by_platform_id(rows, platform_conversation_id, platform) ==
    { r \in rows : /\ r.platform_conversation_id = platform_conversation_id
                   /\ r.platform = platform }

\* A plain insert: what upsert would be without its conflict target.
insert_conversation(rows, data) == rows \cup {data}

\* .upsert(data, on_conflict="teams_conversation_id,platform")
upsert_conversation(rows, data) ==
    { r \in rows : ~ ( /\ r.teams_conversation_id = data.teams_conversation_id
                       /\ r.platform = data.platform ) } \cup {data}

\* .update({"is_resolved": ..}).eq("platform_conversation_id", ..).eq("platform", ..)
update_conversation_resolved(rows, platform_conversation_id, platform, is_resolved) ==
    { IF /\ r.platform_conversation_id = platform_conversation_id
         /\ r.platform = platform
      THEN [r EXCEPT !.is_resolved = is_resolved]
      ELSE r : r \in rows }

(***************************************************************************)
(* ConversationStore (app/core/store.py is not part of the sources): the   *)
(* five operations the router calls, over the table queries above.         *)
(***************************************************************************)
get_by_teams_id(rows, teams_conversation_id, platform) ==
    get_conversation_by_teams_id(rows, teams_conversation_id, platform)

get_by_platform_id(rows, platform_conversation_id, platform) ==
    get_conversation_by_platform_id(rows, platform_conversation_id, platform)

upsert(rows, mapping) == upsert_conversation(rows, mapping)

mark_resolved(rows, platform_conversation_id, platform, is_resolved) ==
    update_conversation_resolved(rows, platform_conversation_id, platform, is_resolved)

update_conversation_reference(rows, teams_conversation_id, platform, ref) ==
    { IF /\ r.teams_conversation_id = teams_conversation_id
         /\ r.platform = platform
      THEN [r EXCEPT !.conversation_reference = ref]
      ELSE r : r \in rows }

(***************************************************************************)
(* Retry policy of outbound sends (router.py, _send_with_retries).  An     *)
(* outcome of client.send_message is a return value or a raised error:     *)
(*   [kind |-> "return", value |-> TRUE/FALSE, status |-> 0]               *)
(*   [kind |-> "http", status |-> n]       httpx.HTTPStatusError           *)
(*   [kind |-> "transport", ...]           httpx.TransportError            *)
(*   [kind |-> "other", ...]               any other exception             *)
(***************************************************************************)
max_attempts == 3
base_delay_ms == 500      \* base_delay = 0.5 s, in milliseconds
jitter_max_ms == 200      \* random.uniform(0, 0.2), in milliseconds

Returns(v) == [kind |-> "return", value |-> v, status |-> 0]
HttpError(n) == [kind |-> "http", value |-> FALSE, status |-> n]
TransportError == [kind |-> "transport", value |-> FALSE, status |-> 0]
OtherError == [kind |-> "other", value |-> FALSE, status |-> 0]

Raised(outcome) == outcome.kind # "return"

\* A classification that retries every HTTP error status.
is_transient_any_http(error) ==
    error.kind \in {"http", "transport"}

_is_transient_error(error) ==
    IF error.kind = "http"
    THEN error.status = 429 \/ (500 <= error.status /\ error.status <= 599)
    ELSE error.kind = "transport"

\* 2 ** k
RECURSIVE Pow2(_)
Pow2(k) == IF k = 0 THEN 1 ELSE 2 * Pow2(k - 1)

\* A backoff that does not grow.
constant_delay_ms(attempt) == base_delay_ms

\* delay = base_delay * (2 ** (attempt - 1)), without the jitter
backoff_delay_ms(attempt) == base_delay_ms * Pow2(attempt - 1)

\* A loop body that backs off after every transient error, the one of the
\* last attempt included.
sleep_after_every_transient(attempt, outcome) ==
    IF ~Raised(outcome)
    THEN [do |-> "return", value |-> outcome.value]
    ELSE IF ~_is_transient_error(outcome)
         THEN [do |-> "return", value |-> FALSE]
         ELSE [do |-> "sleep", value |-> FALSE]

\* What one pass of the loop body does with the outcome of attempt
\* `attempt`: "return" (with the value returned) or "sleep" (then retry).
retry_step(attempt, outcome) ==
    IF ~Raised(outcome)
    THEN [do |-> "return", value |-> outcome.value]
    ELSE IF attempt = max_attempts \/ ~_is_transient_error(outcome)
         THEN [do |-> "return", value |-> FALSE]
         ELSE [do |-> "sleep", value |-> FALSE]

(***************************************************************************)
(* State.                                                                  *)
(***************************************************************************)
VARIABLES
    conversations,   \* the conversations table
    nextConv,        \* backend conversations opened so far
    chat,            \* chat[h]: the handle_teams_message task h
    hook,            \* hook[w]: the handle_webhook task w
    greetings,       \* greetings[t]: greetings sent to Teams conversation t
    swr,             \* one run of _send_with_retries and what it did
    scm,             \* one call of _send_combined_message_to_teams
    pap,             \* one call of _process_attachments_parallel
    dedup,           \* the dedup map of one FreshchatWebhookHandler on its own
    now,             \* time.time(), in seconds
    tenant_row,      \* the tenants table row of the tenant key
    tenant_cache,    \* TenantService._cache[key]
    factory_cache,   \* PlatformFactory._cache[tenant.id]
    returns,         \* what get_client and get_webhook_handler returned
                     \* inside the TTL window of a cache entry
    submitted,       \* submitted[id]: when message id was posted as an agent message
    delivered,       \* delivered[id]: events for message id passed to handle_webhook
    zendesk_webhook_handlers,  \* _webhook_handlers of zendesk/routes.py
    response,        \* the last webhook response and what led to it
    lookup,          \* the get_tenant call that waits for its database read,
                     \* and the configurations later writes have replaced
    called           \* the last call of the tenant service, the factory or
                     \* an endpoint, and what it returned

routerVars == <<conversations, nextConv, chat, hook, greetings>>
webhookVars == <<now, tenant_row, tenant_cache, factory_cache, returns,
                 submitted, delivered, zendesk_webhook_handlers, response,
                 called, lookup>>
vars == <<routerVars, swr, scm, pap, dedup, webhookVars>>
notRouter == <<swr, scm, pap, dedup, webhookVars>>

IdleChat ==
    [ pc |-> "idle", teams_conversation_id |-> 0, force_new |-> FALSE,
      conversation_reference |-> None, mapping |-> {}, existing |-> {},
      attempt |-> 0, errors |-> <<>>, replies |-> <<>>,
      created |-> FALSE, path |-> "", writes |-> {} ]

IdleHook ==
    [ pc |-> "idle", action |-> "", conversation_id |-> None,
      conversation_numeric_id |-> None, mapping |-> {}, result |-> "" ]

RouterInit ==
    /\ conversations = {}
    /\ nextConv = 0
    /\ chat = [h \in ChatTasks |-> IdleChat]
    /\ hook = [w \in HookTasks |-> IdleHook]
    /\ greetings = [t \in TeamsConvs |-> 0]

(***************************************************************************)
(* handle_teams_message (router.py 77-260), one action per awaited call.   *)
(***************************************************************************)
\* The outcomes of the backend send that the router tasks draw from.
SendOutcomes ==
    { Returns(TRUE), Returns(FALSE), HttpError(503), HttpError(400) }

\* What is kept of a task that has returned: its inputs and what it did
\* (the locals die with the task).
Returned(c) ==
    [ IdleChat EXCEPT !.pc = "done",
                      !.teams_conversation_id = c.teams_conversation_id,
                      !.force_new = c.force_new,
                      !.errors = c.errors, !.replies = c.replies,
                      !.created = c.created, !.path = c.path,
                      !.writes = c.writes ]

\* The task has called the store operation `op`, which writes the table.
Wrote(c, op) == [c EXCEPT !.writes = @ \cup {op}]

\* context.send_activity(text) by task h, then return.
ReplyAndReturn(c, text) ==
    Returned([c EXCEPT !.replies = Append(@, text)])

\* Lines 244-250: the reference is refreshed only when the message has one.
AfterDelivered(c) ==
    IF c.conversation_reference # None THEN [c EXCEPT !.pc = "update_ref"]
    ELSE Returned(c)

\* Lines 92-136: the message arrives; tenant and client are resolved.
\* A Freshdesk tenant gets no client from PlatformFactory._create_client
\* and ends here like any tenant without a client.
HTM_Receive(h) ==
    /\ chat[h].pc = "idle"
    /\ \E t \in TeamsConvs, fn \in BOOLEAN, ref \in {None, <<"ref", h>>},
          res \in {"no_tenant_id", "unregistered", "no_client", "ok"} :
          LET c == [chat[h] EXCEPT !.teams_conversation_id = t,
                                   !.force_new = fn,
                                   !.conversation_reference = ref]
          IN chat' = [chat EXCEPT ![h] =
                        IF res = "ok" THEN [c EXCEPT !.pc = "lookup"]
                        ELSE ReplyAndReturn(c, res)]
    /\ UNCHANGED <<conversations, nextConv, hook, greetings>>
    /\ UNCHANGED notRouter

\* Lines 171-188: await store.get_by_teams_id; then the choice of line 191.
HTM_Lookup(h) ==
    /\ chat[h].pc = "lookup"
    /\ LET c == chat[h]
           found == get_by_teams_id(conversations, c.teams_conversation_id, Platform)
       IN \E m \in (IF found = {} THEN {{}} ELSE {{r} : r \in found}) :
            chat' = [chat EXCEPT ![h] =
              IF c.force_new
              THEN [c EXCEPT !.existing = m, !.path = "create",
                      !.pc = IF \E r \in m : ~r.is_resolved /\ r.platform_conversation_id # None
                             THEN "force_resolve" ELSE "create_user"]
              ELSE IF m = {} \/ (\E r \in m : r.is_resolved)
                   THEN [c EXCEPT !.mapping = m, !.path = "create", !.pc = "create_user"]
                   ELSE IF \E r \in m : r.platform_conversation_id = None
                        \* _send_to_helpdesk returns False at once (line 384)
                        THEN ReplyAndReturn([c EXCEPT !.mapping = m, !.path = "send"],
                                            "send_failed")
                        ELSE [c EXCEPT !.mapping = m, !.path = "send",
                                       !.attempt = 1, !.pc = "send"]]
    /\ UNCHANGED <<conversations, nextConv, hook, greetings>>
    /\ UNCHANGED notRouter

\* Lines 183-188: await store.mark_resolved(existing.platform_conversation_id, ..)
HTM_ForceResolve(h) ==
    /\ chat[h].pc = "force_resolve"
    /\ \E r \in chat[h].existing :
          conversations' = mark_resolved(conversations, r.platform_conversation_id,
                                         Platform, TRUE)
    /\ chat' = [chat EXCEPT ![h] =
                  [Wrote(chat[h], "mark_resolved") EXCEPT !.pc = "create_user"]]
    /\ UNCHANGED <<nextConv, hook, greetings>>
    /\ UNCHANGED notRouter

\* Lines 308-318 and 205-209: await client.get_or_create_user.
HTM_CreateUser(h) ==
    /\ chat[h].pc = "create_user"
    /\ \E res \in {"ok", "none", "raises"} :
          chat' = [chat EXCEPT ![h] =
                     CASE res = "ok" -> [chat[h] EXCEPT !.pc = "create_conv"]
                       [] res = "none" -> ReplyAndReturn(chat[h], "create_failed")
                       [] OTHER -> ReplyAndReturn(chat[h], "apology")]
    /\ UNCHANGED <<conversations, nextConv, hook, greetings>>
    /\ UNCHANGED notRouter

\* Lines 356-368: the mapping built from the create_conversation result.
NewMapping(c, result) ==
    [ teams_conversation_id |-> c.teams_conversation_id,
      platform |-> Platform,
      platform_conversation_id |-> result.conversation_id,
      platform_conversation_numeric_id |-> result.id,
      conversation_reference |-> c.conversation_reference,
      is_resolved |-> FALSE,
      greeting_sent |-> FALSE ]

\* Lines 320-345 and 200-209: the attachment pipeline, then
\* await client.create_conversation; a backend conversation is opened
\* when it succeeds.
HTM_CreateConversation(h) ==
    /\ chat[h].pc = "create_conv"
    /\ \/ /\ nextConv < MaxBackendConvs
          /\ nextConv' = nextConv + 1
          /\ \E result \in CreateResults(nextConv + 1) :
                chat' = [chat EXCEPT ![h] =
                           [chat[h] EXCEPT !.created = TRUE,
                                           !.mapping = {NewMapping(chat[h], result)},
                                           !.pc = "upsert"]]
       \/ /\ \E res \in {"create_failed", "config_error", "apology"} :
                chat' = [chat EXCEPT ![h] =
                           ReplyAndReturn([chat[h] EXCEPT !.created = TRUE], res)]
          /\ UNCHANGED nextConv
    /\ UNCHANGED <<conversations, hook, greetings>>
    /\ UNCHANGED notRouter

\* Line 370: return await self.store.upsert(mapping)
HTM_Upsert(h) ==
    /\ chat[h].pc = "upsert"
    /\ \E m \in chat[h].mapping :
          /\ conversations' = upsert(conversations, m)
          /\ chat' = [chat EXCEPT ![h] =
                        IF ~m.greeting_sent
                        THEN [Wrote(chat[h], "upsert") EXCEPT !.pc = "greet"]
                        ELSE AfterDelivered(Wrote(chat[h], "upsert"))]
    /\ UNCHANGED <<nextConv, hook, greetings>>
    /\ UNCHANGED notRouter

\* Lines 212-219: await context.send_activity(welcome_msg);
\* mapping.greeting_sent = True
HTM_Greet(h) ==
    /\ chat[h].pc = "greet"
    /\ greetings' = [greetings EXCEPT ![chat[h].teams_conversation_id] = @ + 1]
    /\ chat' = [chat EXCEPT ![h] =
                  [chat[h] EXCEPT !.replies = Append(@, "greeting"),
                                  !.mapping = {[m EXCEPT !.greeting_sent = TRUE]
                                               : m \in chat[h].mapping},
                                  !.pc = "greet_upsert"]]
    /\ UNCHANGED <<conversations, nextConv, hook>>
    /\ UNCHANGED notRouter

\* Line 220: await self.store.upsert(mapping)
HTM_GreetUpsert(h) ==
    /\ chat[h].pc = "greet_upsert"
    /\ \E m \in chat[h].mapping : conversations' = upsert(conversations, m)
    /\ chat' = [chat EXCEPT ![h] = AfterDelivered(Wrote(chat[h], "upsert"))]
    /\ UNCHANGED <<nextConv, hook, greetings>>
    /\ UNCHANGED notRouter

\* The policy the router does not follow: a failed send opens a new
\* backend conversation instead of reporting the failure.
HTM_SendAttempt_new_conversation(h) ==
    /\ chat[h].pc = "send"
    /\ \E outcome \in SendOutcomes :
          LET step == retry_step(chat[h].attempt, outcome)
              c == [chat[h] EXCEPT !.errors = Append(@, outcome)]
          IN chat' = [chat EXCEPT ![h] =
                        IF step.do = "sleep" THEN [c EXCEPT !.pc = "sleep"]
                        ELSE IF step.value THEN AfterDelivered(c)
                        ELSE [c EXCEPT !.pc = "create_user"]]
    /\ UNCHANGED <<conversations, nextConv, hook, greetings>>
    /\ UNCHANGED notRouter

\* A handler that refreshes the stored conversation reference also when
\* the send failed.
HTM_SendAttempt_refresh_reference(h) ==
    /\ chat[h].pc = "send"
    /\ \E outcome \in SendOutcomes :
          LET step == retry_step(chat[h].attempt, outcome)
              c == [chat[h] EXCEPT !.errors = Append(@, outcome)]
          IN chat' = [chat EXCEPT ![h] =
                        IF step.do = "sleep" THEN [c EXCEPT !.pc = "sleep"]
                        ELSE IF step.value THEN AfterDelivered(c)
                        ELSE [c EXCEPT !.replies = Append(@, "send_failed"),
                                       !.pc = "update_ref"]]
    /\ UNCHANGED <<conversations, nextConv, hook, greetings>>
    /\ UNCHANGED notRouter

\* Lines 224-242 with _send_to_helpdesk and one pass of the loop of
\* _send_with_retries (1026-1053): await client.send_message.
HTM_SendAttempt(h) ==
    /\ chat[h].pc = "send"
    /\ \E outcome \in SendOutcomes :
          LET step == retry_step(chat[h].attempt, outcome)
              c == [chat[h] EXCEPT !.errors = Append(@, outcome)]
          IN chat' = [chat EXCEPT ![h] =
                        IF step.do = "sleep" THEN [c EXCEPT !.pc = "sleep"]
                        ELSE IF step.value THEN AfterDelivered(c)
                        ELSE ReplyAndReturn(c, "send_failed")]
    /\ UNCHANGED <<conversations, nextConv, hook, greetings>>
    /\ UNCHANGED notRouter

\* Line 1053: await asyncio.sleep(delay); the loop goes on.
HTM_Sleep(h) ==
    /\ chat[h].pc = "sleep"
    /\ chat' = [chat EXCEPT ![h].attempt = @ + 1, ![h].pc = "send"]
    /\ UNCHANGED <<conversations, nextConv, hook, greetings>>
    /\ UNCHANGED notRouter

\* A handler that returns after a delivered message without refreshing the
\* stored reference.
HTM_UpdateRef_skipped(h) ==
    /\ chat[h].pc = "update_ref"
    /\ chat' = [chat EXCEPT ![h] = Returned(chat[h])]
    /\ UNCHANGED <<conversations, nextConv, hook, greetings>>
    /\ UNCHANGED notRouter

\* Lines 245-250: await store.update_conversation_reference(..)
HTM_UpdateRef(h) ==
    /\ chat[h].pc = "update_ref"
    /\ conversations' = update_conversation_reference(
                            conversations, chat[h].teams_conversation_id, Platform,
                            chat[h].conversation_reference)
    /\ chat' = [chat EXCEPT ![h] =
                  Returned(Wrote(chat[h], "update_conversation_reference"))]
    /\ UNCHANGED <<nextConv, hook, greetings>>
    /\ UNCHANGED notRouter

handle_teams_message(h) ==
    \/ HTM_Receive(h)
    \/ HTM_Lookup(h)
    \/ HTM_ForceResolve(h)
    \/ HTM_CreateUser(h)
    \/ HTM_CreateConversation(h)
    \/ HTM_Upsert(h)
    \/ HTM_Greet(h)
    \/ HTM_GreetUpsert(h)
    \/ HTM_SendAttempt(h)
    \/ HTM_Sleep(h)
    \/ HTM_UpdateRef(h)

(***************************************************************************)
(* handle_webhook (router.py 404-515), one action per awaited call.        *)
(***************************************************************************)
\* The id pairs (conversation_id, conversation_numeric_id) an event about
\* backend conversation n may carry.
EventIds(n) ==
    { <<Guid(n), Num(n)>>, <<Guid(n), None>>, <<None, Num(n)>>,
      <<Num(n), None>>, <<None, None>> }

\* What is kept of a task that has returned: the event kind and the result.
HookReturn(k, result) ==
    [IdleHook EXCEPT !.pc = "done", !.action = k.action, !.result = result]

\* After _find_mapping found `m` (lines 438-452): the resolution event goes
\* to _handle_resolution, the message event to _send_to_teams.
Dispatch(k, m) ==
    LET k1 == [k EXCEPT !.mapping = {m}]
    IN IF k.action = "conversation_resolution"
       THEN IF m.platform_conversation_id # None \/ m.platform_conversation_numeric_id # None
            THEN [k1 EXCEPT !.pc = "mark"]
            ELSE IF m.conversation_reference # None
                 THEN [k1 EXCEPT !.pc = "notify"]
                 ELSE HookReturn(k1, "resolved_silently")
       ELSE IF m.conversation_reference = None
            THEN HookReturn(k1, "no_reference")
            ELSE [k1 EXCEPT !.pc = "deliver"]

\* Lines 416-426: the event arrives.
HW_Receive(w) ==
    /\ hook[w].pc = "idle"
    /\ \E action \in {"conversation_resolution", "message_create"},
          n \in 1..MaxBackendConvs :
          \E ids \in EventIds(n) :
             LET k == [hook[w] EXCEPT !.action = action,
                                      !.conversation_id = ids[1],
                                      !.conversation_numeric_id = ids[2]]
             IN hook' = [hook EXCEPT ![w] =
                   IF ids[1] = None /\ ids[2] = None
                   THEN HookReturn(k, "no_conversation_id")
                   ELSE [k EXCEPT !.pc = IF ids[1] # None THEN "find_primary"
                                         ELSE "find_numeric"]]
    /\ UNCHANGED <<conversations, nextConv, chat, greetings>>
    /\ UNCHANGED notRouter

\* _find_mapping, lines 465-470: await store.get_by_platform_id(event.conversation_id, ..)
HW_FindPrimary(w) ==
    /\ hook[w].pc = "find_primary"
    /\ LET k == hook[w]
           found == get_by_platform_id(conversations, k.conversation_id, Platform)
       IN \/ /\ found # {}
             /\ \E m \in found : hook' = [hook EXCEPT ![w] = Dispatch(k, m)]
          \/ /\ found = {}
             /\ hook' = [hook EXCEPT ![w] =
                   IF k.conversation_numeric_id # None
                   THEN [k EXCEPT !.pc = "find_numeric"]
                   ELSE HookReturn(k, "no_mapping")]
    /\ UNCHANGED <<conversations, nextConv, chat, greetings>>
    /\ UNCHANGED notRouter

\* _find_mapping, lines 472-479: await store.get_by_platform_id(event.conversation_numeric_id, ..)
HW_FindNumeric(w) ==
    /\ hook[w].pc = "find_numeric"
    /\ LET k == hook[w]
           found == get_by_platform_id(conversations, k.conversation_numeric_id, Platform)
       IN \/ /\ found # {}
             /\ \E m \in found : hook' = [hook EXCEPT ![w] = Dispatch(k, m)]
          \/ /\ found = {}
             /\ hook' = [hook EXCEPT ![w] = HookReturn(k, "no_mapping")]
    /\ UNCHANGED <<conversations, nextConv, chat, greetings>>
    /\ UNCHANGED notRouter

\* _handle_resolution, lines 485-501: await store.mark_resolved(conversation_id, .., True)
HW_MarkResolved(w) ==
    /\ hook[w].pc = "mark"
    /\ \E m \in hook[w].mapping :
          LET conversation_id == IF m.platform_conversation_id # None
                                 THEN m.platform_conversation_id
                                 ELSE m.platform_conversation_numeric_id
          IN /\ conversations' = mark_resolved(conversations, conversation_id, Platform, TRUE)
             /\ hook' = [hook EXCEPT ![w] =
                   IF m.conversation_reference # None
                   THEN [hook[w] EXCEPT !.pc = "notify"]
                   ELSE HookReturn(hook[w], "resolved_silently")]
    /\ UNCHANGED <<nextConv, chat, greetings>>
    /\ UNCHANGED notRouter

\* _handle_resolution, lines 506-510: await bot.send_proactive_message(closed notice)
HW_Notify(w) ==
    /\ hook[w].pc = "notify"
    /\ hook' = [hook EXCEPT ![w] = HookReturn(hook[w], "notified")]
    /\ UNCHANGED <<conversations, nextConv, chat, greetings>>
    /\ UNCHANGED notRouter

\* _send_to_teams, lines 532-546: the agent name, then the combined message
\* is delivered through the stored conversation reference.
HW_Deliver(w) ==
    /\ hook[w].pc = "deliver"
    /\ hook' = [hook EXCEPT ![w] = HookReturn(hook[w], "delivered")]
    /\ UNCHANGED <<conversations, nextConv, chat, greetings>>
    /\ UNCHANGED notRouter

handle_webhook(w) ==
    \/ HW_Receive(w)
    \/ HW_FindPrimary(w)
    \/ HW_FindNumeric(w)
    \/ HW_MarkResolved(w)
    \/ HW_Notify(w)
    \/ HW_Deliver(w)

(***************************************************************************)
(* _send_with_retries (router.py 1014-1055) on its own, against every      *)
(* sequence of outcomes of client.send_message.                            *)
(***************************************************************************)
\* The outcomes of client.send_message: a returned value or a raised error.
RetryOutcomes ==
    { Returns(TRUE), Returns(FALSE), TransportError, OtherError }
      \cup { HttpError(n) : n \in {400, 404, 429, 500, 503, 599} }

\* random.uniform(0, 0.2), in milliseconds (line 1047).
Jitters == {0, 100, jitter_max_ms}

IdleRetry ==
    [ pc |-> "idle", attempt |-> 0, outcomes |-> <<>>, delays |-> <<>>,
      jitters |-> <<>>, result |-> FALSE ]

RetryInit == swr = IdleRetry

\* Lines 1023-1026: the call starts, attempt = 1.
SWR_Call ==
    /\ swr.pc \in {"idle", "done"}
    /\ swr' = [IdleRetry EXCEPT !.pc = "attempt", !.attempt = 1]
    /\ UNCHANGED <<routerVars, scm, pap, dedup, webhookVars>>

\* Lines 1027-1042: one await client.send_message and what follows it.
SWR_Attempt ==
    /\ swr.pc = "attempt"
    /\ \E outcome \in RetryOutcomes :
          LET step == retry_step(swr.attempt, outcome)
              r == [swr EXCEPT !.outcomes = Append(@, outcome)]
          IN swr' = IF step.do = "sleep" THEN [r EXCEPT !.pc = "sleep"]
                    ELSE [r EXCEPT !.pc = "done", !.result = step.value]
    /\ UNCHANGED <<routerVars, scm, pap, dedup, webhookVars>>

\* Lines 1045-1053: the delay is computed and slept; the loop goes on.
SWR_Sleep ==
    /\ swr.pc = "sleep"
    /\ \E jitter \in Jitters :
          swr' = [swr EXCEPT !.delays = Append(@, backoff_delay_ms(swr.attempt) + jitter),
                             !.jitters = Append(@, jitter),
                             !.attempt = @ + 1,
                             !.pc = "attempt"]
    /\ UNCHANGED <<routerVars, scm, pap, dedup, webhookVars>>

(***************************************************************************)
(* _send_combined_message_to_teams (router.py 554-654): the classification *)
(* of the attachments and the single message built from them.              *)
(***************************************************************************)
MaxAttachments == 5   \* attachments of one webhook message

\* str.lower() on the words the attachments are made of.
lower(s) ==
    CASE s = "IMAGE" -> "image"
      [] s = "VIDEO" -> "video"
      [] s = ".PNG"  -> ".png"
      [] s = ".MP4"  -> ".mp4"
      [] OTHER -> s

\* A content type "major/minor" is <<major, minor>>; a file name is
\* <<stem, extension>>.
ContentTypes ==
    { None, <<"image", "png">>, <<"IMAGE", "png">>, <<"video", "mp4">>,
      <<"VIDEO", "mp4">>, <<"application", "octet-stream">> }

Names ==
    { None, <<"a", ".png">>, <<"a", ".PNG">>, <<"a", ".mp4">>, <<"a", ".MP4">>,
      <<"a", ".pdf">>, <<"a", "">> }

image_exts ==
    { ".png", ".jpg", ".jpeg", ".gif", ".bmp", ".webp", ".svg", ".ico",
      ".tiff", ".heic", ".heif" }

video_exts == { ".mp4", ".webm", ".mov", ".avi", ".mkv", ".m4v", ".wmv" }

\* The classification by file name alone.
is_image_by_name_only(content_type, filename) ==
    filename # None /\ lower(filename[2]) \in image_exts

\* Lines 735-745.
_is_image_content_type(content_type, filename) ==
    IF content_type # None /\ lower(content_type[1]) = "image" THEN TRUE
    ELSE IF filename # None THEN lower(filename[2]) \in image_exts
    ELSE FALSE

\* Lines 747-757.
_is_video_content_type(content_type, filename) ==
    IF content_type # None /\ lower(content_type[1]) = "video" THEN TRUE
    ELSE IF filename # None THEN lower(filename[2]) \in video_exts
    ELSE FALSE

\* Lines 580-581.
is_image(a) == a.type = "image" \/ _is_image_content_type(a.content_type, a.name)
is_video(a) == a.type = "video" \/ _is_video_content_type(a.content_type, a.name)

max_images == 4

\* seq[:n] and seq[n:]
Take(seq, n) == SubSeq(seq, 1, IF Len(seq) < n THEN Len(seq) ELSE n)
Drop(seq, n) == SubSeq(seq, n + 1, Len(seq))

\* att.name or default
NameOr(a, default) == IF a.name # None THEN a.name ELSE <<default, "">>

\* The message handed to bot.send_proactive_message, with the lists the
\* function leaves behind: the classification, combined_text (the parts
\* joined at line 606, None when there are none), the card body, and
\* message_parts as it is when the function returns.
_send_combined_message_to_teams(text, attachments) ==
    LET with_url == SelectSeq(attachments, LAMBDA a : a.url # None)
        image_attachments == SelectSeq(with_url, LAMBDA a : is_image(a))
        video_attachments ==
            SelectSeq(with_url, LAMBDA a : ~is_image(a) /\ is_video(a))
        file_attachments ==
            SelectSeq(with_url, LAMBDA a : ~is_image(a) /\ ~is_video(a))
        Links(kind, default, seq) ==
            [i \in 1..Len(seq) |->
                <<kind, NameOr(seq[i], default), seq[i].url>>]
        CardImages(seq) == [i \in 1..Len(seq) |-> <<"Image", seq[i].url>>]
        parts_at_606 ==
            (IF text # None THEN << <<"text", text>> >> ELSE <<>>)
              \o Links("video_link", "video", video_attachments)
              \o Links("file_link", "file", file_attachments)
        combined_text == IF parts_at_606 # <<>> THEN parts_at_606 ELSE None
        more == Len(image_attachments) > max_images
        card_body ==
            IF image_attachments = <<>> THEN <<>>
            ELSE CardImages(Take(image_attachments, max_images))
                   \o (IF more
                       THEN << <<"TextBlock", Len(image_attachments) - max_images>> >>
                       ELSE <<>>)
        message_parts ==
            parts_at_606
              \o (IF more
                  THEN Links("image_link", "image",
                             Drop(image_attachments, max_images))
                  ELSE <<>>)
    IN [ image_attachments |-> image_attachments,
         video_attachments |-> video_attachments,
         file_attachments |-> file_attachments,
         text |-> combined_text,
         card_body |-> card_body,
         message_parts |-> message_parts,
         sent |-> (combined_text # None \/ card_body # <<>>) ]

Url(i) == <<"url", i>>

\* Every attachment a webhook parser can build, at position i of the list.
Attachments(i) ==
    [ type : {"image", "video", "file"}, url : {None, Url(i)},
      name : Names, content_type : ContentTypes ]

\* The attachments the longer lists are made of.
Samples(i) ==
    { [type |-> "file", url |-> Url(i), name |-> <<"a", "">>,
       content_type |-> <<"image", "png">>],
      [type |-> "image", url |-> Url(i), name |-> None,
       content_type |-> <<"image", "png">>],
      [type |-> "video", url |-> Url(i), name |-> <<"a", ".mp4">>,
       content_type |-> <<"video", "mp4">>],
      [type |-> "file", url |-> Url(i), name |-> <<"a", ".pdf">>,
       content_type |-> <<"application", "octet-stream">>],
      [type |-> "file", url |-> None, name |-> <<"a", ".png">>,
       content_type |-> <<"image", "png">>] }

\* The lists of n sample attachments.
RECURSIVE SampleLists(_)
SampleLists(n) ==
    IF n = 0 THEN { <<>> }
    ELSE { Append(s, a) : s \in SampleLists(n - 1), a \in Samples(n) }

AttachmentLists ==
    { <<a>> : a \in Attachments(1) }
      \cup UNION { SampleLists(n) : n \in 0..MaxAttachments }

Texts == {None, <<"hello">>}

IdleCombined ==
    [ pc |-> "idle", text |-> None, attachments |-> <<>>, out |-> None ]

\* The webhook message whose text and attachments are to be sent.
CombinedInit ==
    \E text \in Texts, attachments \in AttachmentLists :
       scm = [IdleCombined EXCEPT !.pc = "call", !.text = text,
                                  !.attachments = attachments]

\* Lines 570-654: the whole call.
SCM_Send ==
    /\ scm.pc = "call"
    /\ scm' = [scm EXCEPT !.pc = "returned",
                          !.out = _send_combined_message_to_teams(scm.text,
                                                                   scm.attachments)]
    /\ UNCHANGED <<routerVars, swr, pap, dedup, webhookVars>>

(***************************************************************************)
(* The attachment pipeline of an inbound chat message (router.py 759-870): *)
(* _process_attachment_parallel for each attachment, gathered by           *)
(* _process_attachments_parallel, and the send that follows.               *)
(***************************************************************************)
MaxPipeline == 2      \* attachments of one chat message

StorageUrl(i) == <<"storage", i>>
BackendUrl(i) == <<"backend", i>>

\* Attachment i of a chat message with what happens to it:
\*   download  bot.download_attachment returns the file, returns nothing or
\*             raises;
\*   storage   db.upload_to_storage returns the public URL or None (it
\*             catches its own exceptions, database.py 189-196);
\*   backend   client.upload_file returns the dict of the uploaded file,
\*             returns nothing or raises.
PipelineAttachments(i) ==
    [ id : {i},
      download : {"file", "none", "raises"},
      content_type : { <<"image", "png">>, <<"application", "octet-stream">> },
      name : { <<"a", "">> },
      storage : {"url", "none"},
      backend : {"dict", "none", "raises"} ]

\* What one task gathered with return_exceptions=True gives: an exception
\* or a value, with the uploads the task started.
Gathered(raised, value, started) ==
    [raised |-> raised, value |-> value, started |-> started]

\* An image pipeline that uploads to the storage first and gives up when
\* that fails.
_process_attachment_storage_first(att) ==
    IF att.download = "raises" THEN Gathered(TRUE, None, {})
    ELSE IF att.download = "none" THEN Gathered(FALSE, None, {})
    ELSE IF _is_image_content_type(att.content_type, att.name)
    THEN IF att.storage # "url"
         THEN Gathered(FALSE, None, {"upload_to_storage"})
         ELSE Gathered(att.backend = "raises",
                       IF att.backend = "dict"
                       THEN [file |-> att.id, url |-> StorageUrl(att.id)]
                       ELSE None,
                       {"upload_to_storage", "upload_file"})
    ELSE Gathered(FALSE,
                  IF att.backend = "dict"
                  THEN [file |-> att.id, url |-> BackendUrl(att.id)]
                  ELSE None,
                  {"upload_file"})

\* Lines 759-838.
_process_attachment_parallel(att) ==
    IF att.download = "raises" THEN Gathered(TRUE, None, {})
    ELSE IF att.download = "none" THEN Gathered(FALSE, None, {})
    ELSE IF _is_image_content_type(att.content_type, att.name)
    THEN LET public_url == IF att.storage = "url" THEN StorageUrl(att.id)
                           ELSE None
             uploaded == IF att.backend = "dict"
                         THEN [file |-> att.id, url |-> BackendUrl(att.id)]
                         ELSE None
         IN Gathered(FALSE,
                     IF uploaded # None
                     THEN IF public_url # None
                          THEN [uploaded EXCEPT !.url = public_url]
                          ELSE uploaded
                     ELSE None,
                     {"upload_to_storage", "upload_file"})
    ELSE Gathered(FALSE,
                  IF att.backend = "dict"
                  THEN [file |-> att.id, url |-> BackendUrl(att.id)]
                  ELSE None,
                  {"upload_file"})

\* The values of the gathered results that are neither an exception nor
\* None, in the order of the results (lines 862-868).
RECURSIVE Filtered(_)
Filtered(results) ==
    IF results = <<>> THEN <<>>
    ELSE LET r == Head(results)
         IN (IF ~r.raised /\ r.value # None THEN <<r.value>> ELSE <<>>)
              \o Filtered(Tail(results))

\* A gather without return_exceptions: the first exception of a task is
\* raised to the caller.
_process_attachments_gather_raising(attachments) ==
    LET results == [i \in 1..Len(attachments) |->
                       _process_attachment_parallel(attachments[i])]
        failed == \E i \in 1..Len(results) : results[i].raised
    IN [ results |-> results, raised |-> failed,
         filtered |-> IF failed THEN <<>> ELSE Filtered(results) ]

\* Lines 840-870.
_process_attachments_parallel(attachments) ==
    LET results == [i \in 1..Len(attachments) |->
                       _process_attachment_parallel(attachments[i])]
    IN [ results |-> results, raised |-> FALSE, filtered |-> Filtered(results) ]

\* The lists of n attachments.
RECURSIVE PipelineLists(_)
PipelineLists(n) ==
    IF n = 0 THEN { <<>> }
    ELSE { Append(s, a) : s \in PipelineLists(n - 1), a \in PipelineAttachments(n) }

IdlePipeline ==
    [ pc |-> "idle", attachments |-> <<>>, results |-> <<>>, raised |-> FALSE,
      filtered |-> <<>>, sent |-> None ]

\* The chat message whose attachments are to be processed.
PipelineInit ==
    \E n \in 0..MaxPipeline : \E attachments \in PipelineLists(n) :
       pap = [IdlePipeline EXCEPT !.pc = "call", !.attachments = attachments]

\* Lines 320-323 and 387-390: await self._process_attachments_parallel(..)
PAP_Call ==
    /\ pap.pc = "call"
    /\ LET done == _process_attachments_parallel(pap.attachments)
       IN pap' = [pap EXCEPT !.results = done.results,
                             !.raised = done.raised,
                             !.filtered = done.filtered,
                             !.pc = IF done.raised THEN "raised" ELSE "processed"]
    /\ UNCHANGED <<routerVars, swr, scm, dedup, webhookVars>>

\* Lines 334-340 and 393-400: the message goes to the backend with
\* attachments=attachments if attachments else None.
PAP_Send ==
    /\ pap.pc = "processed"
    /\ pap' = [pap EXCEPT !.pc = "sent",
                          !.sent = [attachments |->
                                       IF pap.filtered # <<>> THEN pap.filtered
                                       ELSE None]]
    /\ UNCHANGED <<routerVars, swr, scm, dedup, webhookVars>>


(***************************************************************************)
(* The tenant service, the platform factory, the Freshchat webhook handler *)
(* and the tenant-scoped webhook endpoints, for one tenant key.  A request *)
(* is handled in one step.                                                 *)
(***************************************************************************)
TickStep == 150       \* seconds between two readings of the clock
MaxTime == 750        \* the clock stops here
MaxVersions == 2      \* credential snapshots the tenant key goes through
MaxMessageIds == 1    \* distinct agent message ids
MaxSubmits == 2       \* posts of one agent message id

TENANT_CACHE_TTL == 300
CLIENT_CACHE_TTL == 600
DEDUP_TTL_SECONDS == 600
MAX_PROCESSED_MESSAGES == 2000

TenantKey == "T1"
Platforms == {"freshchat", "zendesk", "freshdesk"}
Msg(i) == <<"msg", i>>
MessageIds == { Msg(i) : i \in 1..MaxMessageIds }
NoId == Msg(0)        \* no message id

\* A TenantConfig: `version` names the credential snapshot, `api` says
\* whether the platform's API credentials are there.  Only a Freshchat
\* bundle has a webhook public key, and Freshdesk needs no bundle here.
TenantConfigs(v) ==
    { c \in [ id : {TenantKey}, version : {v}, platform : Platforms,
              api : BOOLEAN, webhook_public_key : BOOLEAN ] :
        /\ c.webhook_public_key => c.platform = "freshchat"
        /\ c.platform = "freshdesk" => c.api }

\* tenant.py 125-177.  `db` is what happens on a miss: the row is read
\* ("ok"), the settings are missing ("not_configured", a RuntimeError), the
\* read fails with another exception ("fails") or decrypt_config fails on
\* the row read ("undecryptable", the RuntimeError of lines 321-327).
get_tenant(cache, row, t, db) ==
    IF cache # None /\ ~(t - cache.cached_at > TENANT_CACHE_TTL)
    THEN [cache |-> cache, value |-> cache.config, raised |-> FALSE, failed |-> FALSE]
    ELSE IF db = "not_configured"
    THEN [cache |-> cache, value |-> None, raised |-> TRUE, failed |-> TRUE]
    ELSE IF db = "fails"
    THEN [cache |-> cache, value |-> None, raised |-> FALSE, failed |-> TRUE]
    ELSE IF row = None
    THEN [cache |-> cache, value |-> None, raised |-> FALSE, failed |-> FALSE]
    ELSE IF db = "undecryptable"
    THEN [cache |-> cache, value |-> None, raised |-> TRUE, failed |-> TRUE]
    ELSE [cache |-> [config |-> row, cached_at |-> t], value |-> row,
          raised |-> FALSE, failed |-> FALSE]

\* platform_factory.py 142-175: no branch for Freshdesk.
_create_client(tenant) ==
    IF tenant.platform \in {"freshchat", "zendesk"} /\ tenant.api
    THEN [platform |-> tenant.platform, snapshot |-> tenant.version]
    ELSE None

\* platform_factory.py 177-195.
_create_webhook_handler(tenant) ==
    IF tenant.platform = "freshchat"
    THEN IF tenant.webhook_public_key
         THEN [kind |-> "freshchat", snapshot |-> tenant.version,
               _processed_messages |-> <<>>]
         ELSE None
    ELSE IF tenant.platform = "zendesk"
    THEN [kind |-> "zendesk", snapshot |-> tenant.version,
          _processed_messages |-> <<>>]
    ELSE None

\* platform_factory.py 197-199.
_is_cache_expired(cached, t) == t - cached.cached_at > CLIENT_CACHE_TTL

\* platform_factory.py 88-117.  `gen` numbers the entries of the key.
get_client(cache, tenant, t) ==
    IF cache # None /\ ~_is_cache_expired(cache, t)
    THEN [cache |-> cache, value |-> cache.client]
    ELSE LET client == _create_client(tenant)
         IN IF client = None
            THEN [cache |-> cache, value |-> None]
            ELSE [cache |-> [client |-> client,
                             webhook_handler |-> _create_webhook_handler(tenant),
                             cached_at |-> t,
                             gen |-> IF cache = None THEN 1 ELSE cache.gen + 1],
                  value |-> client]

\* A handler made for the tenant passed in, whatever the cache holds.
get_webhook_handler_uncached(cache, tenant, t) ==
    LET cached == get_client(cache, tenant, t).cache
    IN [cache |-> cached,
        value |-> IF cached # None THEN _create_webhook_handler(tenant) ELSE None]

\* platform_factory.py 119-140.
get_webhook_handler(cache, tenant, t) ==
    IF cache # None /\ ~_is_cache_expired(cache, t)
    THEN [cache |-> cache, value |-> cache.webhook_handler]
    ELSE LET cached == get_client(cache, tenant, t).cache
         IN [cache |-> cached,
             value |-> IF cached # None THEN cached.webhook_handler ELSE None]

\* What a call at time t returned, noted when the call fell into the TTL
\* window of the entry the cache holds: the entry, the snapshot of the
\* value (0: no value) and whether the value is the entry's.
Returned_by(call, res, t) ==
    LET e == res.cache
    IN IF e # None /\ ~_is_cache_expired(e, t)
       THEN { [ call |-> call,
                window |-> e.gen,
                snapshot |-> IF res.value = None THEN 0 ELSE res.value.snapshot,
                from_entry |-> res.value = (IF call = "get_client" THEN e.client
                                            ELSE e.webhook_handler) ] }
       ELSE {}

\* A check that sweeps the expired entries on every call.
is_duplicate_message_sweep_always(processed, message_id, t) ==
    IF message_id = NoId THEN [processed |-> processed, value |-> FALSE] ELSE
    LET swept == [m \in {d \in DOMAIN processed :
                            ~(t - processed[d] > DEDUP_TTL_SECONDS)}
                     |-> processed[m]]
    IN IF message_id \in DOMAIN swept
       THEN [processed |-> swept, value |-> TRUE]
       ELSE [processed |-> [m \in DOMAIN swept \cup {message_id} |->
                              IF m = message_id THEN t ELSE swept[m]],
             value |-> FALSE]

\* freshchat/webhook.py 242-273; the map is a function message id -> time.
is_duplicate_message(processed, message_id, t) ==
    IF message_id = NoId THEN [processed |-> processed, value |-> FALSE] ELSE
    LET swept == IF Cardinality(DOMAIN processed) > MAX_PROCESSED_MESSAGES
                 THEN [m \in {d \in DOMAIN processed :
                                ~(t - processed[d] > DEDUP_TTL_SECONDS)}
                         |-> processed[m]]
                 ELSE processed
    IN IF message_id \in DOMAIN swept
       THEN [processed |-> swept, value |-> TRUE]
       ELSE [processed |-> [m \in DOMAIN swept \cup {message_id} |->
                              IF m = message_id THEN t ELSE swept[m]],
             value |-> FALSE]

(***************************************************************************)
(* is_duplicate_message on its own, for dedup maps around the capacity.    *)
(***************************************************************************)
MaxOver == 2         \* entries a map starts with beyond the capacity
MaxCalls == 1        \* calls of is_duplicate_message on one map

\* The sizes the map starts with: empty, and around MAX_PROCESSED_MESSAGES.
DedupSizes ==
    {0} \cup ((MAX_PROCESSED_MESSAGES - 1)..(MAX_PROCESSED_MESSAGES + MaxOver))

\* A map of n message ids, all first seen at time 0.
SeenAtZero(n) == [m \in { Msg(i) : i \in 1..n } |-> 0]

\* The ids is_duplicate_message is asked about: no id, an id the maps that
\* are not empty hold, and two ids no map starts with.
ProbeIds ==
    { NoId, Msg(1), Msg(MAX_PROCESSED_MESSAGES + MaxOver + 1),
      Msg(MAX_PROCESSED_MESSAGES + MaxOver + 2) }

\* The map of one handler and its last call of is_duplicate_message: the
\* map before the call, the id asked about, the value returned and the
\* time of the call.
IdleDedup ==
    [ processed |-> <<>>, before |-> <<>>, message_id |-> NoId,
      value |-> FALSE, at |-> 0, calls |-> 0 ]

DedupInit ==
    \E n \in DedupSizes : dedup = [IdleDedup EXCEPT !.processed = SeenAtZero(n)]

\* webhook.py 242-273: one call.
IsDuplicateMessage ==
    /\ dedup.calls < MaxCalls
    /\ \E message_id \in ProbeIds :
          LET r == is_duplicate_message(dedup.processed, message_id, now)
          IN dedup' = [ processed |-> r.processed, before |-> dedup.processed,
                        message_id |-> message_id, value |-> r.value,
                        at |-> now, calls |-> dedup.calls + 1 ]
    /\ UNCHANGED <<routerVars, swr, scm, pap, webhookVars>>

\* The payloads posted to an endpoint: an agent message with its id, a
\* resolution event, a payload the parser ignores (another action, or a
\* message_create without a message id) and a body that is not JSON.
Requests ==
    { [kind |-> "agent_message", id |-> m] : m \in MessageIds }
      \cup { [kind |-> k, id |-> NoId] :
               k \in {"conversation_resolution", "other", "malformed"} }

\* freshchat/webhook.py 280-399: the handler after the call and the event.
parse_webhook(handler, req, t) ==
    IF req.kind = "agent_message"
    THEN LET dup == is_duplicate_message(handler._processed_messages, req.id, t)
         IN [ handler |-> [handler EXCEPT !._processed_messages = dup.processed],
              event |-> IF dup.value THEN None
                        ELSE [action |-> "message_create", id |-> req.id] ]
    ELSE IF req.kind = "conversation_resolution"
    THEN [ handler |-> handler,
           event |-> [action |-> "conversation_resolution", id |-> NoId] ]
    ELSE [ handler |-> handler, event |-> None ]

\* What the request handlers read and write.
State ==
    [ tenant_cache |-> tenant_cache, factory_cache |-> factory_cache,
      returns |-> returns, submitted |-> submitted, delivered |-> delivered,
      response |-> response ]

Respond(st, endpoint, status, tenant, failure) ==
    [st EXCEPT !.response = [endpoint |-> endpoint, status |-> status,
                             tenant |-> tenant, failure |-> failure,
                             signature |-> ""]]

\* The x-freshchat-signature header of a request: absent, a signature that
\* verifies against the tenant's public key, one that does not.
Signatures == {"", "valid", "invalid"}

\* freshchat/webhook.py 188-240: True or False, never an exception.
verify_signature(handler, signature) == signature = "valid"

\* A check that rejects the request whose signature does not verify (the
\* raise of line 59).
reject_invalid_signature(signature, handler) ==
    IF signature # "" /\ handler # None /\ ~verify_signature(handler, signature)
    THEN [status |-> 401, warning |-> "invalid_signature"]
    ELSE [status |-> 0, warning |-> ""]

\* freshchat/routes.py 51-62 and 140-147: what the signature check logs and
\* the status it ends the request with (0: the request goes on).
signature_check(signature, handler) ==
    IF signature # "" /\ handler # None
    THEN IF ~verify_signature(handler, signature)
         THEN [status |-> 0, warning |-> "invalid_signature"]
         ELSE [status |-> 0, warning |-> ""]
    ELSE [status |-> 0, warning |-> ""]

\* router.py 404-459 as the endpoint sees it: the event is passed to
\* handle_webhook, which returns normally whatever happens inside;
\* _send_to_teams asks the factory for the client (line 536).
\* `routed` is what happens inside: "delivered", "no_mapping", "raises".
Forward(st, endpoint, tenant, event, routed, t) ==
    LET counted ==
            IF event.id \in MessageIds
            THEN [st EXCEPT !.delivered[event.id] = @ + 1]
            ELSE st
        asked == get_client(counted.factory_cache, tenant, t)
        logged ==
            IF routed = "delivered" /\ event.action = "message_create"
            THEN [counted EXCEPT
                    !.factory_cache = asked.cache,
                    !.returns = @ \cup Returned_by("get_client", asked, t)]
            ELSE counted
    IN Respond(logged, endpoint, 200, "ok",
               IF routed = "raises" THEN "router_raised" ELSE "none")

\* ZendeskWebhookHandler.parse_webhook and _convert_to_common_event
\* (zendesk/routes.py 95-133): an event for a ticket comment or a solved
\* ticket, nothing for the rest.
zendesk_parse_webhook(req) ==
    IF req.kind \in {"agent_message", "conversation_resolution"}
    THEN [action |-> IF req.kind = "agent_message" THEN "message_create"
                     ELSE req.kind,
          id |-> NoId]
    ELSE None

\* Steps 5-7 of the Freshchat and Freshdesk endpoints: parse with the
\* handler the factory gave (which is the Zendesk one when the factory
\* cache still holds the entry of a tenant that was on Zendesk), then pass
\* the event on.
ParseAndForward(st, endpoint, tenant, handler, req, routed, t) ==
    IF handler = None THEN Respond(st, endpoint, 200, "ok", "none")
    ELSE IF handler.kind # "freshchat"
    THEN IF zendesk_parse_webhook(req) = None
         THEN Respond(st, endpoint, 200, "ok", "none")
         ELSE Forward(st, endpoint, tenant, zendesk_parse_webhook(req), routed, t)
    ELSE LET parsed == parse_webhook(handler, req, t)
             noted ==
                 [st EXCEPT
                    !.factory_cache.webhook_handler = parsed.handler,
                    !.submitted = IF req.kind = "agent_message"
                                  THEN [@ EXCEPT ![req.id] = Append(@, t)]
                                  ELSE @]
         IN IF parsed.event = None THEN Respond(noted, endpoint, 200, "ok", "none")
            ELSE Forward(noted, endpoint, tenant, parsed.event, routed, t)

\* Step 1 of every endpoint: the tenant lookup and the checks on it.
\* Gives the response when the request ends here, None when it goes on.
TenantGate(st, endpoint, got) ==
    IF got.raised THEN Respond(st, endpoint, 500, "unknown", "tenant_lookup_raised")
    ELSE IF got.value = None
    THEN Respond(st, endpoint, 404, "unknown",
                 IF got.failed THEN "tenant_lookup_failed" ELSE "none")
    ELSE IF got.value.platform # endpoint
    THEN Respond(st, endpoint, 400, "wrong_platform", "none")
    ELSE None

\* freshchat/routes.py 19-94.  `signature` is the signature header.
freshchat_webhook(st0, row, db, req, routed, t, signature) ==
    LET got == get_tenant(st0.tenant_cache, row, t, db)
        st == [st0 EXCEPT !.tenant_cache = got.cache]
        gate == TenantGate(st, "freshchat", got)
    IN IF gate # None THEN gate
       ELSE LET h == get_webhook_handler(st.factory_cache, got.value, t)
                st1 == [st EXCEPT
                          !.factory_cache = h.cache,
                          !.returns = @ \cup Returned_by("get_webhook_handler", h, t)]
                checked == signature_check(signature, h.value)
            IN IF checked.status # 0
               THEN Respond(st1, "freshchat", checked.status, "ok",
                            checked.warning)
               ELSE IF req.kind = "malformed"
               THEN Respond(st1, "freshchat", 500, "ok", "malformed_body")
               ELSE ParseAndForward(st1, "freshchat", got.value, h.value, req,
                                    routed, t)

\* What store.get_by_platform_id gives the legacy endpoint for the
\* conversation of the payload: the payload names no conversation, no
\* mapping (or one without tenant_id), a mapping whose tenant_id is not a
\* key of a tenant, the mapping of the tenant, or an exception.
LegacyMappings ==
    {"no_conversation_id", "no_mapping", "other_tenant", "found", "raises"}

\* freshchat/routes.py 97-162, the endpoint without tenant key.
freshchat_webhook_legacy(st0, row, db, req, routed, t, signature, mapping) ==
    IF req.kind = "malformed" \/ mapping = "raises"
    THEN Respond(st0, "freshchat_legacy", 500, "unknown",
                 IF mapping = "raises" THEN "store_raised" ELSE "malformed_body")
    ELSE IF mapping \in {"no_conversation_id", "no_mapping"}
    THEN Respond(st0, "freshchat_legacy", 200, "unknown", "none")
    ELSE LET got == IF mapping = "other_tenant"
                    THEN get_tenant(None, None, t, db)
                    ELSE get_tenant(st0.tenant_cache, row, t, db)
             st == IF mapping = "other_tenant" THEN st0
                   ELSE [st0 EXCEPT !.tenant_cache = got.cache]
         IN IF got.raised
            THEN Respond(st, "freshchat_legacy", 500, "unknown",
                         "tenant_lookup_raised")
            ELSE IF got.value = None
            THEN Respond(st, "freshchat_legacy", 200, "unknown",
                         IF got.failed THEN "tenant_lookup_failed" ELSE "none")
            ELSE LET h == get_webhook_handler(st.factory_cache, got.value, t)
                     st1 == [st EXCEPT
                               !.factory_cache = h.cache,
                               !.returns = @ \cup
                                  Returned_by("get_webhook_handler", h, t)]
                     checked == signature_check(signature, h.value)
                 IN IF checked.status # 0
                    THEN Respond(st1, "freshchat_legacy", checked.status, "ok",
                                 checked.warning)
                    ELSE ParseAndForward(st1, "freshchat_legacy", got.value,
                                         h.value, req, routed, t)

\* freshdesk/routes.py 17-53.
freshdesk_webhook(st0, row, db, req, routed, t) ==
    LET got == get_tenant(st0.tenant_cache, row, t, db)
        st == [st0 EXCEPT !.tenant_cache = got.cache]
        gate == TenantGate(st, "freshdesk", got)
    IN IF gate # None THEN gate
       ELSE IF req.kind = "malformed"
       THEN Respond(st, "freshdesk", 500, "ok", "malformed_body")
       ELSE LET h == get_webhook_handler(st.factory_cache, got.value, t)
                st1 == [st EXCEPT
                          !.factory_cache = h.cache,
                          !.returns = @ \cup Returned_by("get_webhook_handler", h, t)]
            IN ParseAndForward(st1, "freshdesk", got.value, h.value, req,
                               routed, t)

\* zendesk/routes.py 28-92.  The handler comes from the module's own
\* _webhook_handlers; webhook_secret is "", so no signature is checked.
zendesk_webhook(st0, row, db, req, routed, t) ==
    LET got == get_tenant(st0.tenant_cache, row, t, db)
        st == [st0 EXCEPT !.tenant_cache = got.cache]
        gate == TenantGate(st, "zendesk", got)
    IN IF gate # None THEN gate
       ELSE IF req.kind = "malformed"
       THEN Respond(st, "zendesk", 500, "ok", "malformed_body")
       ELSE IF zendesk_parse_webhook(req) = None
       THEN Respond(st, "zendesk", 200, "ok", "none")
       ELSE Forward(st, "zendesk", got.value, zendesk_parse_webhook(req), routed, t)

DbOutcomes == {"ok", "fails", "not_configured"}
RouterOutcomes == {"delivered", "no_mapping", "raises"}

\* The database is asked only on a tenant cache miss.
DbAsked(db) ==
    (tenant_cache # None /\ ~(now - tenant_cache.cached_at > TENANT_CACHE_TTL))
       => db = "ok"

NoResponse ==
    [ endpoint |-> "", status |-> 0, tenant |-> "", failure |-> "",
      signature |-> "" ]

NoLookup == [read |-> None, superseded |-> {}]

NoCall ==
    [ call |-> "", tenant |-> None, cause |-> "", value |-> None,
      raised |-> FALSE, before |-> None, reply |-> "" ]

WebhookInit ==
    /\ now = 0
    /\ tenant_row \in {None} \cup TenantConfigs(1)
    /\ tenant_cache = None
    /\ factory_cache = None
    /\ returns = {}
    /\ submitted = [m \in MessageIds |-> <<>>]
    /\ delivered = [m \in MessageIds |-> 0]
    /\ zendesk_webhook_handlers = {}
    /\ response = NoResponse
    /\ called = NoCall
    /\ lookup = NoLookup

\* The state the endpoints and the factory are left in when nothing there
\* runs.
WebhookIdle ==
    /\ now = 0
    /\ tenant_row = None
    /\ tenant_cache = None
    /\ factory_cache = None
    /\ returns = {}
    /\ submitted = [m \in MessageIds |-> <<>>]
    /\ delivered = [m \in MessageIds |-> 0]
    /\ zendesk_webhook_handlers = {}
    /\ response = NoResponse
    /\ called = NoCall
    /\ lookup = NoLookup

\* time.time() moves on.
Tick ==
    /\ now + TickStep <= MaxTime
    /\ now' = now + TickStep
    /\ UNCHANGED <<routerVars, swr, scm, pap, dedup, tenant_row, tenant_cache, factory_cache,
                   returns, submitted, delivered, zendesk_webhook_handlers, response,
                   called, lookup>>

\* tenant.py 367-369: the entry of the key is dropped.
_invalidate_cache(cache) == None

\* What the call leaves when it returns None with no row written.
Unchanged(cache, row, outcome) ==
    [row |-> row, cache |-> cache, value |-> None, outcome |-> outcome]

\* `return await self.get_tenant(..)` inside the try of create_tenant and
\* update_tenant (lines 224, 278, 286): a RuntimeError of get_tenant is
\* caught there and None returned.
Reread(cache, row, t, db) ==
    LET got == get_tenant(cache, row, t, db)
    IN [row |-> row, cache |-> got.cache, value |-> got.value,
        outcome |-> IF got.raised THEN "exception_caught" ELSE "returned"]

\* What the settings check, encrypt_config and db.upsert_tenant do in
\* create_tenant: the row is written and returned ("ok"), the upsert
\* returns no data with the row not written or written, or an exception is
\* raised before the row is written.
UpsertOutcomes ==
    {"ok", "nothing_returned", "written_nothing_returned", "raises",
     "not_configured"}

\* tenant.py 179-228.
create_tenant(cache, row, config, write, db, t) ==
    IF write \in {"not_configured", "raises"}
    THEN Unchanged(cache, row, "exception_caught")
    ELSE IF write = "nothing_returned"
    THEN Unchanged(cache, row, "write_returned_nothing")
    ELSE IF write = "written_nothing_returned"
    THEN Unchanged(cache, config, "write_returned_nothing")
    ELSE Reread(_invalidate_cache(cache), config, t, db)

\* What the settings check, the read of the existing row and
\* db.update_tenant do in update_tenant.
UpdateOutcomes == {"ok", "read_raises", "write_raises", "not_configured"}

\* tenant.py 230-290.  `config` is the row the update asks for, None when
\* the call names no field to update.
update_tenant(cache, row, config, write, db, t) ==
    IF write \in {"not_configured", "read_raises"}
    THEN Unchanged(cache, row, "exception_caught")
    ELSE IF row = None
    THEN Unchanged(cache, row, "not_found")
    ELSE IF config = None
    THEN Reread(cache, row, t, db)
    ELSE IF write = "write_raises"
    THEN Unchanged(cache, row, "exception_caught")
    ELSE Reread(_invalidate_cache(cache), config, t, db)

\* The credential snapshot the next administrative write stores.
NextVersion == (IF tenant_row = None THEN 0 ELSE tenant_row.version) + 1

\* An administrative write of the tenant as the endpoints see it: the row
\* is written, the cache entry dropped and the tenant read again, or the
\* write fails and nothing changes.
AdminWrite ==
    /\ NextVersion <= MaxVersions
    /\ \E write \in {"ok", "raises"}, db \in {"ok", "fails"} :
          \E config \in TenantConfigs(NextVersion) :
             LET done == create_tenant(tenant_cache, tenant_row, config, write,
                                       db, now)
             IN /\ tenant_row' = done.row
                /\ tenant_cache' = done.cache
    /\ UNCHANGED <<routerVars, swr, scm, pap, dedup, now, factory_cache, returns, submitted,
                   delivered, zendesk_webhook_handlers, response, called,
                   lookup>>

\* What the lookup of get_tenant may meet on a miss.
LookupOutcomes == DbOutcomes \cup {"undecryptable"}

\* router.py 104-136, the head of handle_teams_message: the tenant is
\* looked up and the factory asked for its client.  `has_tenant_id` says
\* whether the message names a tenant, `command` whether its text is one
\* of the Freshdesk commands (lines 122-125).  `reply` is the message sent
\* to the user ("" when none is sent here), `raised` says that get_tenant
\* raised, which handle_teams_message does not catch.
resolve_client(tcache, fcache, row, t, db, has_tenant_id, command) ==
    LET got == get_tenant(tcache, row, t, db)
        asked == get_client(fcache, got.value, t)
        ends(reply, raised) ==
            [ tenant_cache |-> IF has_tenant_id THEN got.cache ELSE tcache,
              factory_cache |-> fcache, tenant |-> None, asked |-> None,
              reply |-> reply, raised |-> raised ]
    IN IF ~has_tenant_id THEN ends("no_tenant_id", FALSE)
       ELSE IF got.raised THEN ends("", TRUE)
       ELSE IF got.value = None THEN ends("setup_required", FALSE)
       ELSE IF got.value.platform = "freshdesk" /\ command
       THEN [ends("menu_card", FALSE) EXCEPT !.tenant = got.value]
       ELSE [ tenant_cache |-> got.cache, factory_cache |-> asked.cache,
              tenant |-> got.value, asked |-> asked,
              reply |-> IF asked.value = None THEN "check_settings" ELSE "",
              raised |-> FALSE ]

\* router.py 112-136: handle_teams_message looks the tenant up and asks the
\* factory for its client.
HTM_GetClient ==
    /\ \E db \in DbOutcomes :
          LET head == resolve_client(tenant_cache, factory_cache, tenant_row,
                                     now, db, TRUE, FALSE)
          IN /\ DbAsked(db)
             /\ tenant_cache' = head.tenant_cache
             /\ factory_cache' = head.factory_cache
             /\ returns' = returns \cup
                   (IF head.asked = None THEN {}
                    ELSE Returned_by("get_client", head.asked, now))
    /\ UNCHANGED <<routerVars, swr, scm, pap, dedup, now, tenant_row, submitted, delivered,
                   zendesk_webhook_handlers, response, called, lookup>>

\* The variables take the values of the state a request handler leaves.
Becomes(st) ==
    /\ tenant_cache' = st.tenant_cache
    /\ factory_cache' = st.factory_cache
    /\ returns' = st.returns
    /\ submitted' = st.submitted
    /\ delivered' = st.delivered
    /\ response' = st.response

\* An agent message id is posted MaxSubmits times at most.
Postable(req) ==
    req.kind = "agent_message" => Len(submitted[req.id]) < MaxSubmits

\* A request that reached an endpoint with the signature header `signature`.
Signed(st, signature) == [st EXCEPT !.response.signature = signature]

\* A post to /api/webhook/freshchat/{key} whose signature header is one of
\* `signatures`.
FreshchatPost(signatures) ==
    /\ \E db \in DbOutcomes, req \in Requests, routed \in RouterOutcomes,
          signature \in signatures :
          /\ DbAsked(db)
          /\ Postable(req)
          /\ Becomes(Signed(freshchat_webhook(State, tenant_row, db, req, routed,
                                              now, signature), signature))
    /\ UNCHANGED <<routerVars, swr, scm, pap, dedup, now, tenant_row, zendesk_webhook_handlers,
                   called, lookup>>

\* Posts without signature header.
FreshchatWebhook == FreshchatPost({""})

\* Posts with any signature header.
FreshchatWebhookSigned == FreshchatPost(Signatures)

\* A post to /api/webhook/freshchat, the endpoint without tenant key.
FreshchatWebhookLegacy ==
    /\ \E db \in DbOutcomes, req \in Requests, routed \in RouterOutcomes,
          signature \in Signatures, mapping \in LegacyMappings :
          /\ DbAsked(db)
          /\ Postable(req)
          /\ Becomes(Signed(freshchat_webhook_legacy(State, tenant_row, db, req,
                                 routed, now, signature, mapping), signature))
    /\ UNCHANGED <<routerVars, swr, scm, pap, dedup, now, tenant_row, zendesk_webhook_handlers,
                   called, lookup>>

FreshdeskWebhook ==
    /\ \E db \in DbOutcomes, req \in Requests, routed \in RouterOutcomes :
          /\ DbAsked(db)
          /\ Postable(req)
          /\ Becomes(freshdesk_webhook(State, tenant_row, db, req, routed, now))
    /\ UNCHANGED <<routerVars, swr, scm, pap, dedup, now, tenant_row, zendesk_webhook_handlers,
                   called, lookup>>

ZendeskWebhook ==
    /\ \E db \in DbOutcomes, req \in Requests, routed \in RouterOutcomes :
          LET st == zendesk_webhook(State, tenant_row, db, req, routed, now)
          IN /\ DbAsked(db)
             /\ Postable(req)
             /\ Becomes(st)
             /\ zendesk_webhook_handlers' =
                   IF st.response.tenant = "ok" /\ st.response.failure # "malformed_body"
                   THEN zendesk_webhook_handlers \cup {TenantKey}
                   ELSE zendesk_webhook_handlers
    /\ UNCHANGED <<routerVars, swr, scm, pap, dedup, now, tenant_row, called, lookup>>

(***************************************************************************)
(* The tenant service and the factory call by call: every call notes in    *)
(* `called` what it was given and what it returned.                        *)
(***************************************************************************)
\* TenantService.get_tenant(key).
GetTenant ==
    /\ \E db \in LookupOutcomes :
          LET got == get_tenant(tenant_cache, tenant_row, now, db)
          IN /\ DbAsked(db)
             /\ tenant_cache' = got.cache
             /\ called' = [NoCall EXCEPT
                             !.call = "get_tenant",
                             !.cause = IF got.cache = tenant_cache /\ got.value # None
                                       THEN "cache_hit" ELSE db,
                             !.value = got.value,
                             !.raised = got.raised,
                             !.before = tenant_cache]
    /\ UNCHANGED <<routerVars, swr, scm, pap, dedup, now, tenant_row, factory_cache, returns,
                   submitted, delivered, zendesk_webhook_handlers, response,
                   lookup>>

\* TenantService.create_tenant(key, ..).
CreateTenant ==
    /\ NextVersion <= MaxVersions
    /\ \E write \in UpsertOutcomes, db \in LookupOutcomes :
          \E config \in TenantConfigs(NextVersion) :
             LET done == create_tenant(tenant_cache, tenant_row, config, write,
                                       db, now)
             IN /\ tenant_row' = done.row
                /\ tenant_cache' = done.cache
                /\ called' = [NoCall EXCEPT !.call = "create_tenant",
                                            !.cause = done.outcome,
                                            !.value = done.value,
                                            !.before = tenant_cache]
    /\ UNCHANGED <<routerVars, swr, scm, pap, dedup, now, factory_cache, returns, submitted,
                   delivered, zendesk_webhook_handlers, response, lookup>>

\* TenantService.update_tenant(key, ..).
UpdateTenant ==
    /\ \E write \in UpdateOutcomes, db \in LookupOutcomes :
          \E config \in {None} \cup TenantConfigs(NextVersion) :
             LET done == update_tenant(tenant_cache, tenant_row, config, write,
                                       db, now)
             IN /\ config # None => NextVersion <= MaxVersions
                /\ tenant_row' = done.row
                /\ tenant_cache' = done.cache
                /\ called' = [NoCall EXCEPT !.call = "update_tenant",
                                            !.cause = done.outcome,
                                            !.value = done.value,
                                            !.before = tenant_cache]
    /\ UNCHANGED <<routerVars, swr, scm, pap, dedup, now, factory_cache, returns, submitted,
                   delivered, zendesk_webhook_handlers, response, lookup>>

\* PlatformFactory.get_client(tenant), for the TenantConfig the tenant
\* service holds.
GetClient ==
    /\ tenant_cache # None
    /\ LET tenant == tenant_cache.config
           asked == get_client(factory_cache, tenant, now)
       IN /\ factory_cache' = asked.cache
          /\ called' = [NoCall EXCEPT !.call = "get_client",
                                      !.tenant = tenant,
                                      !.cause = IF asked.cache = factory_cache
                                                   /\ asked.value # None
                                                THEN "cache_hit" ELSE "built",
                                      !.value = asked.value,
                                      !.before = factory_cache]
    /\ UNCHANGED <<routerVars, swr, scm, pap, dedup, now, tenant_row, tenant_cache, returns,
                   submitted, delivered, zendesk_webhook_handlers, response,
                   lookup>>

\* Why the head of handle_teams_message ended as it did.
HeadCause(head, row, db, has_tenant_id) ==
    IF ~has_tenant_id THEN "no_tenant_id"
    ELSE IF head.raised THEN db
    ELSE IF head.reply = "setup_required"
    THEN (IF row = None /\ db = "ok" THEN "tenant_not_found" ELSE db)
    ELSE IF head.reply = "check_settings" THEN "no_client"
    ELSE "ok"

\* router.py 92-136: a chat message arrives and handle_teams_message
\* resolves its tenant and client.
HTM_Head ==
    /\ \E db \in LookupOutcomes, has_tenant_id \in BOOLEAN, command \in BOOLEAN :
          LET head == resolve_client(tenant_cache, factory_cache, tenant_row,
                                     now, db, has_tenant_id, command)
          IN /\ DbAsked(db)
             /\ tenant_cache' = head.tenant_cache
             /\ factory_cache' = head.factory_cache
             /\ called' = [NoCall EXCEPT
                             !.call = "handle_teams_message",
                             !.tenant = head.tenant,
                             !.cause = HeadCause(head, tenant_row, db, has_tenant_id),
                             !.raised = head.raised,
                             !.reply = head.reply]
    /\ UNCHANGED <<routerVars, swr, scm, pap, dedup, now, tenant_row, returns, submitted,
                   delivered, zendesk_webhook_handlers, response, lookup>>

(***************************************************************************)
(* The specifications.                                                     *)
(***************************************************************************)
\* The router: chat-message tasks and webhook tasks, interleaved at their
\* awaits.
Init ==
    /\ RouterInit
    /\ RetryInit
    /\ scm = IdleCombined
    /\ pap = IdlePipeline
    /\ dedup = IdleDedup
    /\ WebhookIdle

Next ==
    \/ \E h \in ChatTasks : handle_teams_message(h)
    \/ \E w \in HookTasks : handle_webhook(w)

Spec == Init /\ [][Next]_vars

\* _send_with_retries against every sequence of outcomes.
InitRetry ==
    /\ RouterInit
    /\ RetryInit
    /\ scm = IdleCombined
    /\ pap = IdlePipeline
    /\ dedup = IdleDedup
    /\ WebhookIdle

NextRetry == SWR_Call \/ SWR_Attempt \/ SWR_Sleep

SpecRetry == InitRetry /\ [][NextRetry]_vars

\* _send_combined_message_to_teams on every input.
InitCombined ==
    /\ RouterInit
    /\ RetryInit
    /\ CombinedInit
    /\ pap = IdlePipeline
    /\ dedup = IdleDedup
    /\ WebhookIdle

NextCombined == SCM_Send

SpecCombined == InitCombined /\ [][NextCombined]_vars

\* The attachment pipeline of one chat message, for every list of
\* attachments and outcomes.
InitPipeline ==
    /\ RouterInit
    /\ RetryInit
    /\ scm = IdleCombined
    /\ PipelineInit
    /\ dedup = IdleDedup
    /\ WebhookIdle

NextPipeline == PAP_Call \/ PAP_Send

SpecPipeline == InitPipeline /\ [][NextPipeline]_vars

\* One dedup map, asked call by call as the clock moves on.
InitDedup ==
    /\ RouterInit
    /\ RetryInit
    /\ scm = IdleCombined
    /\ pap = IdlePipeline
    /\ DedupInit
    /\ WebhookIdle

NextDedup == Tick \/ IsDuplicateMessage

SpecDedup == InitDedup /\ [][NextDedup]_vars

\* The factory cache and the Freshchat endpoint as the clock moves on.
InitWebhook ==
    /\ RouterInit
    /\ RetryInit
    /\ scm = IdleCombined
    /\ pap = IdlePipeline
    /\ dedup = IdleDedup
    /\ WebhookInit

NextWebhook ==
    \/ Tick
    \/ AdminWrite
    \/ HTM_GetClient
    \/ FreshchatWebhook

SpecWebhook == InitWebhook /\ [][NextWebhook]_vars

\* The three tenant-scoped endpoints, at one reading of the clock.
InitEndpoints ==
    /\ RouterInit
    /\ RetryInit
    /\ scm = IdleCombined
    /\ pap = IdlePipeline
    /\ dedup = IdleDedup
    /\ WebhookInit

NextEndpoints ==
    \/ AdminWrite
    \/ HTM_GetClient
    \/ FreshchatWebhook
    \/ FreshdeskWebhook
    \/ ZendeskWebhook

SpecEndpoints == InitEndpoints /\ [][NextEndpoints]_vars

\* The two Freshchat endpoints under requests with any signature header.
InitSignature ==
    /\ RouterInit
    /\ RetryInit
    /\ scm = IdleCombined
    /\ pap = IdlePipeline
    /\ dedup = IdleDedup
    /\ WebhookInit

NextSignature ==
    \/ AdminWrite
    \/ HTM_GetClient
    \/ FreshchatWebhookSigned
    \/ FreshchatWebhookLegacy

SpecSignature == InitSignature /\ [][NextSignature]_vars

\* The tenant service, the factory and the head of handle_teams_message,
\* call by call as the clock moves on.
InitTenant ==
    /\ RouterInit
    /\ RetryInit
    /\ scm = IdleCombined
    /\ pap = IdlePipeline
    /\ dedup = IdleDedup
    /\ WebhookInit

NextTenant ==
    \/ Tick
    \/ GetTenant
    \/ CreateTenant
    \/ UpdateTenant
    \/ GetClient
    \/ HTM_Head

SpecTenant == InitTenant /\ [][NextTenant]_vars


(***************************************************************************)
(* Properties of the router (Spec).                                        *)
(***************************************************************************)
OpenMappings(t) ==
    { r \in conversations : /\ r.teams_conversation_id = t
                            /\ r.platform = Platform
                            /\ ~r.is_resolved }

Last(seq) == seq[Len(seq)]

\* C1: after any sequence of router operations the table holds at most one
\* mapping with is_resolved = false per (Teams conversation id, platform).
C1_AtMostOneOpenMapping ==
    \A t \in TeamsConvs : Cardinality(OpenMappings(t)) <= 1

\* A second backend conversation was opened for a key and its mapping,
\* written over the first one, is the open mapping of the key.
C1_Witness ==
    /\ nextConv >= 2
    /\ \E t \in TeamsConvs : \E r \in OpenMappings(t) :
          r.platform_conversation_id \in {Guid(2), Num(2)}

\* The tasks that have received a message.
Started == { h \in ChatTasks : chat[h].pc # "idle" }

\* C2: two chat messages for the same key, none forcing a new conversation,
\* handled (in any interleaving) from an empty table with no backend call
\* failing and no webhook in between: when both have returned, the key has
\* an open mapping and the greeting was sent exactly once.
C2_GreetingExactlyOnce ==
    \A h1, h2 \in ChatTasks :
       ( /\ h1 # h2
         /\ Started = {h1, h2}
         /\ \A w \in HookTasks : hook[w].pc = "idle"
         /\ chat[h1].pc = "done" /\ chat[h2].pc = "done"
         /\ chat[h1].teams_conversation_id = chat[h2].teams_conversation_id
         /\ ~chat[h1].force_new /\ ~chat[h2].force_new
         /\ chat[h1].replies = <<"greeting">>
         /\ chat[h2].replies \in {<<"greeting">>, <<>>, <<"send_failed">>} )
       => /\ greetings[chat[h1].teams_conversation_id] = 1
          /\ OpenMappings(chat[h1].teams_conversation_id) # {}

ThreeTimes503 == <<HttpError(503), HttpError(503), HttpError(503)>>

\* C3: a message sent into an Open mapping whose three send attempts all
\* fail with HTTP 503: the task reports the failure to the user and returns,
\* it has not called createConversation, and no step of the send path
\* writes the table or opens a backend conversation (the mapping stays as
\* it is, Open).
C3_SendFailureKeepsMapping ==
    [][ \A h \in ChatTasks :
          ( chat[h].pc \in {"send", "sleep"} /\ chat'[h] # chat[h] )
          => /\ conversations' = conversations
             /\ nextConv' = nextConv
             /\ ( chat'[h].errors = ThreeTimes503
                  => /\ chat'[h].pc = "done"
                     /\ chat'[h].replies = <<"send_failed">>
                     /\ ~chat'[h].created ) ]_vars

\* A task returned after three 503 failures while the key's mapping is Open.
C3_Witness ==
    \E h \in ChatTasks :
       /\ chat[h].pc = "done"
       /\ chat[h].errors = ThreeTimes503
       /\ chat[h].replies = <<"send_failed">>
       /\ OpenMappings(chat[h].teams_conversation_id) # {}

\* The open mappings whose secondary (numeric) id is `id`.
OpenWithSecondary(id) ==
    { r \in conversations : /\ r.platform = Platform
                            /\ ~r.is_resolved
                            /\ r.platform_conversation_numeric_id = id }

\* C8: a resolution event that carries only the secondary id of an Open
\* mapping is resolved by _find_mapping to that mapping, and the step that
\* follows marks the mapping resolved in the table.
C8_SecondaryIdResolves ==
    [][ \A w \in HookTasks :
          /\ ( /\ hook[w].pc = "find_numeric"
               /\ hook[w].action = "conversation_resolution"
               /\ hook[w].conversation_id = None
               /\ OpenWithSecondary(hook[w].conversation_numeric_id) # {}
               /\ hook'[w] # hook[w] )
             => /\ hook'[w].pc = "mark"
                /\ hook'[w].mapping \subseteq
                       OpenWithSecondary(hook[w].conversation_numeric_id)
          /\ ( hook[w].pc = "mark" /\ hook'[w] # hook[w] )
             => \A m \in hook[w].mapping :
                  \A r \in conversations' :
                     ( /\ r.teams_conversation_id = m.teams_conversation_id
                       /\ r.platform_conversation_id = m.platform_conversation_id )
                     => r.is_resolved ]_vars

(***************************************************************************)
(* Properties of _send_with_retries (SpecRetry).                           *)
(***************************************************************************)
\* The errors the retry policy calls transient: HTTP 429, any 5xx, or a
\* transport-level failure.
TransientByPolicy(o) ==
    \/ o.kind = "transport"
    \/ o.kind = "http" /\ (o.status = 429 \/ o.status \in 500..599)

\* C5: _send_with_retries calls send_message at most 3 times, calls again
\* only after a raised error that is transient, and after any other error
\* has returned failure with no further call.
C5_RetryOnlyAfterTransient ==
    /\ swr.attempt <= 3
    /\ Len(swr.outcomes) <= 3
    /\ \A i \in 1..Len(swr.outcomes) :
          LET o == swr.outcomes[i]
          IN /\ i < Len(swr.outcomes) => Raised(o) /\ TransientByPolicy(o)
             /\ (Raised(o) /\ ~TransientByPolicy(o))
                  => /\ i = Len(swr.outcomes)
                     /\ swr.pc = "done"
                     /\ swr.result = FALSE

\* A 503 was retried and the 400 that followed ended the run in failure.
C5_Witness ==
    /\ swr.pc = "done"
    /\ swr.outcomes = <<HttpError(503), HttpError(400)>>
    /\ swr.result = FALSE

TwoFailuresThenSuccess == <<HttpError(500), HttpError(500), Returns(TRUE)>>

\* C6: a run whose first two attempts fail with HTTP 500 and whose third
\* succeeds returns success after exactly 3 attempts and two sleeps, whose
\* delays without the jitter are 0.5 s then 1.0 s (1.5 s at least in all).
C6_BackoffThenSuccess ==
    swr.outcomes = TwoFailuresThenSuccess
    => /\ swr.pc = "done"
       /\ swr.result = TRUE
       /\ swr.attempt = 3
       /\ Len(swr.delays) = 2
       /\ swr.delays[1] - swr.jitters[1] = 500
       /\ swr.delays[2] - swr.jitters[2] = 1000
       /\ swr.delays[1] + swr.delays[2] >= 1500

\* Such a run has returned, its sleeps drawn with jitter.
C6_Witness ==
    /\ swr.pc = "done"
    /\ swr.outcomes = TwoFailuresThenSuccess
    /\ swr.jitters = <<jitter_max_ms, 100>>

(***************************************************************************)
(* Properties of _send_combined_message_to_teams (SpecCombined).           *)
(***************************************************************************)
\* An attachment with a URL, a declared kind other than image and the
\* content type image/png.
PngNoKind(a) ==
    a.url # None /\ a.type # "image" /\ a.content_type = <<"image", "png">>

InCard(a, out) ==
    \E i \in 1..Len(out.card_body) : out.card_body[i] = <<"Image", a.url>>

LinkedAs(kind, a, out) ==
    \E i \in 1..Len(out.text) :
       out.text[i][1] = kind /\ out.text[i][3] = a.url

\* C9 as stated: every such attachment is placed in the image card and has
\* no file link in the combined text.
C9_PngInCard ==
    scm.pc = "returned"
    => \A i \in 1..Len(scm.attachments) :
          PngNoKind(scm.attachments[i])
          => /\ InCard(scm.attachments[i], scm.out)
             /\ ~LinkedAs("file_link", scm.attachments[i], scm.out)

\* C9, amended: every such attachment is classified as an image and has
\* neither a file link nor a video link in the combined text; it is placed
\* in the image card when it is among the first four images of the message.
C9_PngIsImage ==
    scm.pc = "returned"
    => \A i \in 1..Len(scm.attachments) :
          LET a == scm.attachments[i]
              images == scm.out.image_attachments
          IN PngNoKind(a)
             => /\ \E j \in 1..Len(images) : images[j] = a
                /\ ~LinkedAs("file_link", a, scm.out)
                /\ ~LinkedAs("video_link", a, scm.out)
                /\ (\E j \in 1..max_images : j <= Len(images) /\ images[j] = a)
                     => InCard(a, scm.out)

\* A message of several attachments was sent with such an attachment in
\* its card.
C9_Witness ==
    /\ scm.pc = "returned"
    /\ scm.out.sent
    /\ Len(scm.attachments) >= 2
    /\ \E i \in 1..Len(scm.attachments) :
          /\ PngNoKind(scm.attachments[i])
          /\ InCard(scm.attachments[i], scm.out)

(***************************************************************************)
(* Properties of the factory cache and the dedup map (SpecWebhook).        *)
(***************************************************************************)
\* C4: an agent message id posted twice to the Freshchat endpoint, the
\* second time within the dedup TTL of the first, has reached
\* handle_webhook as exactly one event.
C4_ExactlyOneEvent ==
    \A m \in MessageIds :
       ( /\ Len(submitted[m]) = 2
         /\ submitted[m][2] - submitted[m][1] < DEDUP_TTL_SECONDS )
       => delivered[m] = 1

\* C7: every value get_client or get_webhook_handler returned inside the
\* TTL window of a cache entry is that entry's, the values returned inside
\* one window are of one credential snapshot, and so are the client and the
\* handler of the entry.
C7_OneSnapshotPerWindow ==
    /\ \A r \in returns : r.from_entry
    /\ \A r1, r2 \in returns :
          (r1.window = r2.window /\ r1.snapshot # 0 /\ r2.snapshot # 0)
          => r1.snapshot = r2.snapshot
    /\ (factory_cache # None /\ factory_cache.webhook_handler # None)
          => factory_cache.webhook_handler.snapshot = factory_cache.client.snapshot

\* Both calls returned a value inside the window of the entry the cache
\* holds, which was built from a snapshot the tenant has since left.
C7_Witness ==
    /\ factory_cache # None
    /\ ~_is_cache_expired(factory_cache, now)
    /\ tenant_row # None
    /\ tenant_row.version # factory_cache.client.snapshot
    /\ tenant_cache # None
    /\ tenant_cache.config = tenant_row
    /\ \E r1, r2 \in returns :
          /\ r1.call = "get_client" /\ r2.call = "get_webhook_handler"
          /\ r1.window = factory_cache.gen /\ r2.window = factory_cache.gen
          /\ r1.snapshot # 0 /\ r2.snapshot # 0

(***************************************************************************)
(* Properties of the webhook endpoints (SpecEndpoints).                    *)
(***************************************************************************)
\* C10: an endpoint answers 500 to every request in which something failed
\* unexpectedly, and otherwise 404 for an unknown tenant key, 400 for a
\* tenant on another platform and 200 for the rest; no other status.
C10_StatusByOutcome ==
    response.status # 0
    => /\ response.status \in {200, 400, 404, 500}
       /\ response.failure # "none" => response.status = 500
       /\ response.failure = "none"
            => response.status =
                 (CASE response.tenant = "unknown" -> 404
                    [] response.tenant = "wrong_platform" -> 400
                    [] OTHER -> 200)

\* C11: when the router fails while it handles the event an endpoint passed
\* to handle_webhook, the endpoint answers 500.
C11_RouterErrorGives500 ==
    response.failure = "router_raised" => response.status = 500

\* What the user is told when the create path fails: lines 206-208, 203
\* and 258-260.
CreateFailures == {"create_failed", "config_error", "apology"}

\* The tasks that took the create path and returned after user creation or
\* createConversation failed.
CreateFailed ==
    { h \in ChatTasks : /\ chat[h].pc = "done"
                        /\ chat[h].path = "create"
                        /\ chat[h].replies # <<>>
                        /\ Last(chat[h].replies) \in CreateFailures }

\* C12: a task that took the create path (no mapping, a resolved mapping or
\* a forced new conversation) and whose user creation or createConversation
\* failed has told the user of the error, once, and has made no store write:
\* no mapping written, no existing mapping changed.
C12_CreateFailureKeepsState ==
    \A h \in CreateFailed :
       /\ Len(chat[h].replies) = 1
       /\ chat[h].writes = {}

\* C13: once the table holds is_resolved = true for the mapping of a
\* backend conversation id, no step of a chat-message task or a webhook
\* task leaves the table with a mapping of that backend conversation id
\* whose is_resolved is false.
C13_ResolvedNeverReopened ==
    [][ \A r \in conversations :
          ( r.is_resolved /\ r.platform_conversation_id # None )
          => \A r2 \in conversations' :
                r2.platform_conversation_id = r.platform_conversation_id
                => r2.is_resolved ]_vars

(***************************************************************************)
(* Properties of the tenant service and the factory (SpecTenant).          *)
(***************************************************************************)
\* C14: when create_tenant or update_tenant has returned, however it ended,
\* the tenant cache holds no entry of the key that was cached before the
\* call: it holds none, or one the call has made.
C14_CacheInvalidated ==
    called.call \in {"create_tenant", "update_tenant"}
    => \/ tenant_cache = None
       \/ tenant_cache # called.before

\* C15: get_client returns None exactly when the credential bundle of the
\* tenant's platform is absent or incomplete; a tenant of any platform
\* with a complete bundle gets a client.
C15_ClientIffComplete ==
    called.call = "get_client"
    => (called.value = None <=> ~called.tenant.api)

\* C16: get_tenant on a cache miss raises when the bundle of the stored row
\* cannot be decrypted, and then creates no cache entry; it returns None
\* only when the key has no row.
C16_MissRaisesOrNotFound ==
    ( called.call = "get_tenant" /\ called.cause # "cache_hit" )
    => /\ ( called.cause = "undecryptable" /\ tenant_row # None )
            => ( called.raised /\ tenant_cache = called.before )
       /\ ( ~called.raised /\ called.value = None ) => tenant_row = None


\* What a request leaves behind that a caller or the router can see: the
\* response and the events handed to the router.
Outcome(st) ==
    [ status |-> st.response.status, failure |-> st.response.failure,
      delivered |-> st.delivered, submitted |-> st.submitted,
      factory_cache |-> st.factory_cache, tenant_cache |-> st.tenant_cache ]

ConfigurationErrors == {"tenant_not_found", "no_client", "undecryptable"}

\* C18: a chat message that meets a configuration error ends
\* handle_teams_message normally, with a message to the user that describes
\* the configuration problem.
C18_ConfigErrorTold ==
    (called.call = "handle_teams_message" /\ called.cause \in ConfigurationErrors)
        => /\ ~called.raised
           /\ called.reply \in {"setup_required", "check_settings"}


\* C19: in every run of _send_with_retries a sleep lies between two
\* attempts only: a run that has returned slept once less than it called
\* send_message, a run that is sleeping has attempts left, and at no moment
\* are there more sleeps than attempts.
C19_SleepsBetweenAttempts ==
    /\ Len(swr.delays) <= Len(swr.outcomes)
    /\ swr.pc = "done" => Len(swr.delays) = Len(swr.outcomes) - 1
    /\ swr.pc = "sleep" => Len(swr.outcomes) < max_attempts
    /\ swr.pc = "attempt" => Len(swr.delays) = Len(swr.outcomes)

\* A run that used up its three attempts on transient errors has returned
\* failure after two sleeps.
C19_ExhaustedAfterTwoSleeps ==
    /\ swr.pc = "done"
    /\ swr.outcomes = <<TransportError, HttpError(429), HttpError(599)>>
    /\ Len(swr.delays) = 2
    /\ swr.result = FALSE


\* C20: a task whose send into an Open mapping failed, after a permanent
\* error, a False returned or the last of three attempts, has told the user
\* so and returned having called no writing operation of the store and
\* having opened no backend conversation.
C20_FailedSendWritesNothing ==
    \A h \in ChatTasks :
       ( chat[h].pc = "done" /\ \E i \in 1..Len(chat[h].replies) :
                                    chat[h].replies[i] = "send_failed" )
       => /\ chat[h].path = "send"
          /\ chat[h].writes = {}
          /\ ~chat[h].created
          /\ Len(chat[h].errors) <= max_attempts

\* A task returned the failure after a permanent error (HTTP 400) on its
\* first attempt, the message carrying a conversation reference or not.
C20_PermanentFailureReturned ==
    \E h \in ChatTasks :
       /\ chat[h].pc = "done"
       /\ chat[h].path = "send"
       /\ chat[h].errors = <<HttpError(400)>>
       /\ chat[h].replies = <<"send_failed">>
       /\ chat[h].writes = {}


\* Row r2 is row r1 with at most its conversation reference changed.
SameButReference(r1, r2) ==
    [r1 EXCEPT !.conversation_reference = None]
        = [r2 EXCEPT !.conversation_reference = None]

\* The last attempt of task record c returned True.
Delivered(c) == c.errors # <<>> /\ c.errors[Len(c.errors)] = Returns(TRUE)

\* C21: a chat task that sent its message into an Open mapping and carries
\* a conversation reference goes on, after the successful send, to the
\* refresh of the reference; the send step writes nothing, and the step in
\* which the task returns leaves every row of the key with the reference of
\* the message and changes no other column of any row (backend ids,
\* is_resolved and greeting_sent stay as they are).
C21_DeliveredRefreshesReference ==
    [][ \A h \in ChatTasks :
          LET c == chat[h]
              key(r) == /\ r.teams_conversation_id = c.teams_conversation_id
                        /\ r.platform = Platform
          IN ( c.path = "send" /\ chat'[h] # c /\ c.conversation_reference # None )
             => /\ ( c.pc = "send" /\ Delivered(chat'[h]) )
                     => /\ chat'[h].pc = "update_ref"
                        /\ conversations' = conversations
                /\ ( Delivered(c) /\ chat'[h].pc = "done" )
                     => /\ \A r \in conversations' :
                              key(r) => r.conversation_reference
                                            = c.conversation_reference
                        /\ \A r \in conversations :
                              \E r2 \in conversations' :
                                 IF key(r) THEN SameButReference(r, r2)
                                 ELSE r2 = r
                        /\ \A r2 \in conversations' :
                              \E r \in conversations : SameButReference(r, r2)
                        /\ \E r \in conversations' : key(r) ]_vars

\* A task on the send path has returned after a delivered message, having
\* written the reference only, and the Open row of its key now carries the
\* reference of that message, which is not the one the row was created
\* with.
C21_ReferenceReplaced ==
    \E h \in ChatTasks :
       /\ chat[h].pc = "done"
       /\ chat[h].path = "send"
       /\ Delivered(chat[h])
       /\ chat[h].writes = {"update_conversation_reference"}
       /\ \E r \in OpenMappings(chat[h].teams_conversation_id) :
             /\ r.conversation_reference = <<"ref", h>>
             /\ \E g \in ChatTasks \ {h} : chat[g].created


(***************************************************************************)
(* TenantService under overlapping calls: get_tenant waits at its          *)
(* database read (tenant.py 148) while a mutating call runs.               *)
(***************************************************************************)
DeleteOutcomes == {"ok", "raises", "not_configured"}

\* tenant.py 292-313.
delete_tenant(cache, row, write) ==
    IF write \in {"not_configured", "raises"}
    THEN [row |-> row, cache |-> cache, value |-> FALSE]
    ELSE [row |-> None, cache |-> _invalidate_cache(cache), value |-> TRUE]

\* tenant.py 135-148: get_tenant misses the cache and its database read
\* returns the row; the call has not yet gone on.
GetTenant_Read ==
    /\ lookup.read = None
    /\ IF tenant_cache = None THEN TRUE
       ELSE now - tenant_cache.cached_at > TENANT_CACHE_TTL
    /\ tenant_row # None
    /\ lookup' = [lookup EXCEPT !.read = tenant_row]
    /\ UNCHANGED <<routerVars, swr, scm, pap, dedup, now, tenant_row, tenant_cache,
                   factory_cache, returns, submitted, delivered,
                   zendesk_webhook_handlers, response, called>>

\* tenant.py 149-162: the call goes on with the row it read: the row is
\* parsed and cached, and its configuration returned.
GetTenant_Store ==
    /\ lookup.read # None
    /\ \E db \in {"ok", "undecryptable"} :
          LET got == get_tenant(None, lookup.read, now, db)
          IN /\ tenant_cache' = IF got.value = None THEN tenant_cache
                                ELSE got.cache
             /\ called' = [NoCall EXCEPT !.call = "get_tenant",
                                         !.cause = "rebuilt",
                                         !.value = got.value,
                                         !.raised = got.raised,
                                         !.before = tenant_cache]
    /\ lookup' = [lookup EXCEPT !.read = None]
    /\ UNCHANGED <<routerVars, swr, scm, pap, dedup, now, tenant_row, factory_cache, returns,
                   submitted, delivered, zendesk_webhook_handlers, response>>

\* The configurations the mutating calls write here: a complete Freshchat
\* bundle, told apart by its version.
WrittenConfigs(v) ==
    { c \in TenantConfigs(v) :
        c.platform = "freshchat" /\ c.api /\ c.webhook_public_key }

\* create_tenant, update_tenant or delete_tenant for the key, from call to
\* return.  A configuration is superseded when the call that replaced or
\* deleted it has returned successfully.
TenantMutation ==
    /\ \E op \in {"create_tenant", "update_tenant", "delete_tenant"},
          write \in UpsertOutcomes \cup UpdateOutcomes \cup DeleteOutcomes,
          db \in LookupOutcomes,
          config \in {None} \cup WrittenConfigs(NextVersion) :
          LET done ==
                 CASE op = "create_tenant" ->
                        create_tenant(tenant_cache, tenant_row, config, write, db, now)
                   [] op = "update_tenant" ->
                        update_tenant(tenant_cache, tenant_row, config, write, db, now)
                   [] op = "delete_tenant" ->
                        delete_tenant(tenant_cache, tenant_row, write)
              succeeded == IF op = "delete_tenant" THEN done.value
                           ELSE done.outcome = "returned" /\ done.value # None
          IN /\ op = "create_tenant" => write \in UpsertOutcomes /\ config # None
             /\ op = "update_tenant" => write \in UpdateOutcomes
             /\ op = "delete_tenant" =>
                   write \in DeleteOutcomes /\ config = None /\ db = "ok"
             /\ config # None => NextVersion <= MaxVersions
             /\ tenant_row' = done.row
             /\ tenant_cache' = done.cache
             /\ called' = [NoCall EXCEPT !.call = op,
                                         !.cause = IF succeeded THEN "returned"
                                                   ELSE "failed",
                                         !.value = done.value,
                                         !.before = tenant_cache]
             /\ lookup' = [lookup EXCEPT !.superseded =
                             IF succeeded /\ tenant_row # None
                                          /\ done.row # tenant_row
                             THEN (@ \cup {tenant_row}) \ {done.row}
                             ELSE @ \ {done.row}]
    /\ UNCHANGED <<routerVars, swr, scm, pap, dedup, now, factory_cache, returns, submitted,
                   delivered, zendesk_webhook_handlers, response>>

InitOverlap == InitTenant

NextOverlap ==
    \/ Tick
    \/ GetTenant
    \/ GetTenant_Read
    \/ GetTenant_Store
    \/ TenantMutation

SpecOverlap == InitOverlap /\ [][NextOverlap]_vars

\* The same calls, each get_tenant running from call to return.
NextNoOverlap ==
    \/ Tick
    \/ GetTenant
    \/ TenantMutation

SpecNoOverlap == InitOverlap /\ [][NextNoOverlap]_vars

_handle_resolution_return_without_id(mapping, platform) ==
    LET conversation_id ==
            IF mapping.platform_conversation_id # None
            THEN mapping.platform_conversation_id
            ELSE mapping.platform_conversation_numeric_id
    IN [ mark_resolved |-> conversation_id,
         send_proactive_message |->
             /\ conversation_id # None
             /\ platform # "freshdesk"
             /\ mapping.conversation_reference # None ]

\* The calls _handle_resolution(mapping, tenant) makes: the id given to
\* store.mark_resolved (None: no call) and whether the closed notice is
\* sent.  `platform` is tenant.platform.
_handle_resolution(mapping, platform) ==
    LET conversation_id ==
            IF mapping.platform_conversation_id # None
            THEN mapping.platform_conversation_id
            ELSE mapping.platform_conversation_numeric_id
    IN [ mark_resolved |-> conversation_id,
         send_proactive_message |->
             /\ platform # "freshdesk"
             /\ mapping.conversation_reference # None ]

\* The mappings _handle_resolution is applied to.
ResolutionMappings ==
    [ teams_conversation_id : TeamsConvs,
      platform : Platforms,
      platform_conversation_id :
          {None} \cup { Guid(n) : n \in 1..MaxBackendConvs },
      platform_conversation_numeric_id :
          {None} \cup { Num(n) : n \in 1..MaxBackendConvs },
      conversation_reference : {None, <<"ref", 1>>},
      is_resolved : BOOLEAN,
      greeting_sent : BOOLEAN ]

\* The table holds one mapping, and _handle_resolution is called with it.
InitResolution ==
    /\ conversations \in { {m} : m \in ResolutionMappings }
    /\ nextConv = 0
    /\ chat = [h \in ChatTasks |-> IdleChat]
    /\ hook = [w \in HookTasks |-> IdleHook]
    /\ greetings = [t \in TeamsConvs |-> 0]
    /\ RetryInit
    /\ scm = IdleCombined
    /\ pap = IdlePipeline
    /\ dedup = IdleDedup
    /\ WebhookIdle

\* The whole of _handle_resolution(mapping, tenant) for the tenant of the
\* mapping's platform.
HR_Call(w) ==
    /\ hook[w].pc = "idle"
    /\ \E m \in conversations :
          LET calls == _handle_resolution(m, m.platform)
          IN /\ conversations' =
                   IF calls.mark_resolved # None
                   THEN mark_resolved(conversations, calls.mark_resolved,
                                      m.platform, TRUE)
                   ELSE conversations
             /\ hook' = [hook EXCEPT ![w] =
                   [ HookReturn([hook[w] EXCEPT !.action = "conversation_resolution"],
                                IF calls.send_proactive_message THEN "notified"
                                ELSE "resolved_silently")
                     EXCEPT !.mapping = {m},
                            !.conversation_id = calls.mark_resolved ]]
    /\ UNCHANGED <<nextConv, chat, greetings>>
    /\ UNCHANGED notRouter

NextResolution == \E w \in HookTasks : HR_Call(w)

SpecResolution == InitResolution /\ [][NextResolution]_vars

\* C23: _handle_resolution for a tenant that is not on Freshdesk and a
\* mapping with neither backend id calls mark_resolved with nothing, leaves
\* the table as it is, and has sent the closed notice exactly when the
\* mapping has a conversation reference.
C23_NoIdSkipsMarkStillNotifies ==
    \A w \in HookTasks : \A m \in hook[w].mapping :
       ( /\ hook[w].pc = "done"
         /\ m.platform # "freshdesk"
         /\ m.platform_conversation_id = None
         /\ m.platform_conversation_numeric_id = None )
       => /\ hook[w].conversation_id = None
          /\ conversations = {m}
          /\ (hook[w].result = "notified") <=> (m.conversation_reference # None)

\* _handle_resolution has returned for an open mapping without backend ids
\* that has a conversation reference: the notice was sent and the mapping
\* is still open.
C23_NoticeWithoutMark ==
    \E w \in HookTasks : \E m \in hook[w].mapping :
       /\ hook[w].pc = "done"
       /\ m.platform = "zendesk"
       /\ m.platform_conversation_id = None
       /\ m.platform_conversation_numeric_id = None
       /\ m.conversation_reference # None
       /\ ~m.is_resolved
       /\ hook[w].result = "notified"
       /\ m \in conversations


\* The three signs an attachment gives of being of class `class` ("image"
\* or "video"): its declared kind, the prefix of its content type, the
\* extension of its file name.
KindSays(a, class) == a.type = class
TypeSays(a, class) == a.content_type # None /\ lower(a.content_type[1]) = class
NameSays(a, class) ==
    a.name # None /\ lower(a.name[2]) \in
                        (IF class = "image" THEN image_exts ELSE video_exts)

\* The class by levels: the declared kind decides first, the content type
\* only when the kind does not decide, the file name only when neither
\* does, image before video at each level.
ClassByLevel(a) ==
    IF KindSays(a, "image") THEN "image"
    ELSE IF KindSays(a, "video") THEN "video"
    ELSE IF TypeSays(a, "image") THEN "image"
    ELSE IF TypeSays(a, "video") THEN "video"
    ELSE IF NameSays(a, "image") THEN "image"
    ELSE IF NameSays(a, "video") THEN "video"
    ELSE "file"

\* The class by classes: image when any sign says image, else video when
\* any sign says video, else generic file.
ClassByClass(a) ==
    IF KindSays(a, "image") \/ TypeSays(a, "image") \/ NameSays(a, "image")
    THEN "image"
    ELSE IF KindSays(a, "video") \/ TypeSays(a, "video") \/ NameSays(a, "video")
    THEN "video"
    ELSE "file"

\* The list of the call's result that attachment a was put in.
ClassGiven(a, out) ==
    IF \E i \in 1..Len(out.image_attachments) : out.image_attachments[i] = a
    THEN "image"
    ELSE IF \E i \in 1..Len(out.video_attachments) : out.video_attachments[i] = a
    THEN "video"
    ELSE IF \E i \in 1..Len(out.file_attachments) : out.file_attachments[i] = a
    THEN "file"
    ELSE "none"

\* C24: every attachment with a URL is put in the class that the
\* levels give, declared kind before content type before file name.
C24_ClassByLevel ==
    scm.pc = "returned" =>
       \A i \in 1..Len(scm.attachments) :
          LET a == scm.attachments[i]
          IN a.url # None => ClassGiven(a, scm.out) = ClassByLevel(a)

\* What holds instead: every attachment with a URL is an image when its
\* declared kind, its content type or its file name says image; otherwise
\* a video when one of the three says video; otherwise a generic file.  An
\* attachment without URL is in no class.
ClassifiedByClass ==
    scm.pc = "returned" =>
       \A i \in 1..Len(scm.attachments) :
          LET a == scm.attachments[i]
          IN ClassGiven(a, scm.out) =
                (IF a.url # None THEN ClassByClass(a) ELSE "none")


(***************************************************************************)
(* Properties of the attachment pipeline (SpecPipeline).                   *)
(***************************************************************************)
\* The processing of attachment a succeeded: the file was downloaded and
\* the backend took it.
Processed(a) == a.download = "file" /\ a.backend = "dict"

\* The ids of the attachments of a list, and of the files of a result list.
IdsOf(seq) == [i \in 1..Len(seq) |-> seq[i].id]
FilesOf(seq) == [i \in 1..Len(seq) |-> seq[i].file]

\* C25: _process_attachments_parallel does not raise, whatever fails for
\* whichever attachment; it returns one result for each attachment whose
\* processing succeeded and for no other, in the order of the input; and
\* the message is then sent with exactly these (None when there are none).
C25_FailuresOmitted ==
    /\ ~pap.raised
    /\ pap.pc # "raised"
    /\ pap.pc \in {"processed", "sent"} =>
          FilesOf(pap.filtered) = IdsOf(SelectSeq(pap.attachments, Processed))
    /\ pap.pc = "sent" =>
          pap.sent.attachments =
             (IF \E i \in 1..Len(pap.attachments) : Processed(pap.attachments[i])
              THEN pap.filtered ELSE None)

\* A message of two attachments has been sent with the second only, the
\* download of the first having raised.
C25_SentWithoutFailed ==
    /\ pap.pc = "sent"
    /\ Len(pap.attachments) = 2
    /\ pap.attachments[1].download = "raises"
    /\ Processed(pap.attachments[2])
    /\ FilesOf(pap.sent.attachments) = <<2>>

\* C26: for every attachment that was downloaded and is an image, both
\* uploads were started; the attachment is in the outgoing set exactly when
\* the backend upload succeeded, whatever the storage upload did; and it
\* carries the storage URL exactly when the storage upload succeeded too.
C26_UploadsIndependent ==
    pap.pc \in {"processed", "sent"} =>
       \A i \in 1..Len(pap.attachments) :
          LET a == pap.attachments[i]
              r == pap.results[i]
              included == \E j \in 1..Len(pap.filtered) : pap.filtered[j].file = a.id
          IN ( a.download = "file" /\ a.content_type = <<"image", "png">> )
             => /\ r.started = {"upload_to_storage", "upload_file"}
                /\ included <=> a.backend = "dict"
                /\ \A j \in 1..Len(pap.filtered) :
                      pap.filtered[j].file = a.id =>
                         ( pap.filtered[j].url = StorageUrl(a.id)
                             <=> a.storage = "url" )

\* An image whose storage upload failed went out with the backend's own
\* URL, and one whose backend upload raised was left out although its
\* storage upload succeeded.
C26_OneUploadFailed ==
    /\ pap.pc = "sent"
    /\ Len(pap.attachments) = 2
    /\ \A i \in 1..2 : /\ pap.attachments[i].download = "file"
                       /\ pap.attachments[i].content_type = <<"image", "png">>
    /\ pap.attachments[1].storage = "none"
    /\ pap.attachments[1].backend = "dict"
    /\ pap.attachments[2].storage = "url"
    /\ pap.attachments[2].backend = "raises"
    /\ pap.sent.attachments = << [file |-> 1, url |-> BackendUrl(1)] >>


(***************************************************************************)
(* Properties of the dedup map (SpecDedup).                                *)
(***************************************************************************)
\* The ids the last call of is_duplicate_message removed from the map; an
\* id the call removed and then added again carries the time of the call.
Removed ==
    { m \in DOMAIN dedup.before :
         \/ m \notin DOMAIN dedup.processed
         \/ dedup.processed[m] # dedup.before[m] }

\* C27: a call of is_duplicate_message removes entries only when the map
\* held more than 2,000 entries when the call began, and then only entries
\* older than the 10-minute TTL; an entry younger than the TTL is never
\* removed, so a map of more than 2,000 younger entries stays above 2,000.
C27_SweepOnlyOverCapacity ==
    dedup.calls > 0 =>
       /\ Removed # {} => Cardinality(DOMAIN dedup.before) > 2000
       /\ \A m \in Removed : dedup.at - dedup.before[m] > 600

\* A call found more than 2,000 entries, none of them expired, removed
\* none and added its id: the map holds more than 2,001.
C27_StaysOverCapacity ==
    /\ dedup.calls > 0
    /\ Cardinality(DOMAIN dedup.before) > 2000
    /\ Removed = {}
    /\ Cardinality(DOMAIN dedup.processed) > 2001

\* A call found more than 2,000 entries and removed the expired ones.
C27_Swept ==
    /\ dedup.calls > 0
    /\ Cardinality(DOMAIN dedup.before) > 2000
    /\ Removed # {}
    /\ dedup.message_id \in Removed
    /\ ~dedup.value

\* C29: a call for a message id whose entry is older than the 10-minute
\* TTL returns False, however many entries the map holds.
C29_ExpiredIsNotDuplicate ==
    ( /\ dedup.calls > 0
      /\ dedup.message_id \in DOMAIN dedup.before
      /\ dedup.at - dedup.before[dedup.message_id] > 600 )
    => ~dedup.value


\* C28: handle_teams_message never raises to its caller: whatever the
\* tenant lookup, the Freshdesk command handling and the client lookup
\* meet, the call ends normally.
C28_NeverRaises ==
    called.call = "handle_teams_message" => ~called.raised


(***************************************************************************)
(* handle_webhook(tenant, event) as one call, on a table that holds the    *)
(* mappings of two tenants (router.py 404-553).                            *)
(***************************************************************************)
Owners == {"T1", "T2"}

\* The tenant argument: its id and platform are all handle_webhook reads.
WebhookTenants == [ id : Owners, platform : Platforms ]

\* A mapping as _create_new_conversation stores it (router.py 362-372),
\* tenant_id = tenant.id included; Teams conversation `t` belongs to `o`.
OwnedMappings(t, o) ==
    [ teams_conversation_id : {t},
      tenant_id : {o},
      platform : Platforms,
      platform_conversation_id : { Guid(1), Num(1) },
      platform_conversation_numeric_id : {None},
      conversation_reference : {None, <<"ref", t>>},
      is_resolved : {FALSE},
      greeting_sent : {FALSE} ]

\* The tables: a mapping of T1, alone or next to one of T2.
OwnedTables ==
    { {m} : m \in OwnedMappings(1, "T1") }
      \cup { {m1, m2} : m1 \in OwnedMappings(1, "T1"), m2 \in OwnedMappings(2, "T2") }

\* _find_mapping (router.py 461-479): the mappings the two lookups may
\* return (the query takes the first matching row, database.py 43-55).
_find_mapping(rows, event, platform) ==
    LET primary == IF event.conversation_id # None
                   THEN get_by_platform_id(rows, event.conversation_id, platform)
                   ELSE {}
        numeric == IF event.conversation_numeric_id # None
                   THEN get_by_platform_id(rows, event.conversation_numeric_id,
                                           platform)
                   ELSE {}
    IN IF primary # {} THEN primary ELSE numeric

\* What handle_webhook does with the mapping it found (router.py 438-452,
\* 481-553): the table it leaves and what reached the Teams conversation
\* of the mapping.
handle_event(rows, tenant, event, m) ==
    IF event.action = "conversation_resolution"
    THEN LET calls == _handle_resolution(m, tenant.platform)
         IN [ rows |-> IF calls.mark_resolved # None
                       THEN mark_resolved(rows, calls.mark_resolved,
                                          m.platform, TRUE)
                       ELSE rows,
              mapping |-> {m},
              result |-> IF calls.send_proactive_message THEN "notified"
                         ELSE "resolved_silently" ]
    ELSE [ rows |-> rows, mapping |-> {m},
           result |-> IF tenant.platform = "freshdesk" THEN "suppressed"
                      ELSE IF m.conversation_reference = None
                      THEN "no_reference"
                      ELSE "delivered" ]

\* The events handle_webhook is called with.
OwnedEvents ==
    { [ action |-> a, conversation_id |-> ids[1],
        conversation_numeric_id |-> ids[2] ] :
        a \in {"conversation_resolution", "message_create"},
        ids \in EventIds(1) }

InitOwned ==
    /\ conversations \in OwnedTables
    /\ nextConv = 0
    /\ chat = [h \in ChatTasks |-> IdleChat]
    /\ hook = [w \in HookTasks |-> IdleHook]
    /\ greetings = [t \in TeamsConvs |-> 0]
    /\ RetryInit
    /\ scm = IdleCombined
    /\ pap = IdlePipeline
    /\ dedup = IdleDedup
    /\ WebhookIdle

\* The whole of handle_webhook(tenant, event).
HW_Call(w) ==
    /\ \E tenant \in WebhookTenants, event \in OwnedEvents :
          LET k == [IdleHook EXCEPT !.action = event.action,
                       !.conversation_id = event.conversation_id,
                       !.conversation_numeric_id = event.conversation_numeric_id]
              found == _find_mapping(conversations, event, tenant.platform)
              asked == [NoCall EXCEPT !.call = "handle_webhook",
                                      !.tenant = tenant,
                                      !.before = conversations]
          IN /\ called' = asked
             /\ IF event.conversation_id = None
                   /\ event.conversation_numeric_id = None
                THEN /\ hook' = [hook EXCEPT ![w] =
                                    HookReturn(k, "no_conversation_id")]
                     /\ UNCHANGED conversations
                ELSE IF found = {}
                THEN /\ hook' = [hook EXCEPT ![w] = HookReturn(k, "no_mapping")]
                     /\ UNCHANGED conversations
                ELSE \E m \in found :
                        LET done == handle_event(conversations, tenant, event, m)
                        IN /\ conversations' = done.rows
                           /\ hook' = [hook EXCEPT ![w] =
                                 [HookReturn(k, done.result)
                                    EXCEPT !.mapping = done.mapping]]
    /\ UNCHANGED <<nextConv, chat, greetings, swr, scm, pap, dedup, now,
                   tenant_row, tenant_cache, factory_cache, returns, submitted,
                   delivered, zendesk_webhook_handlers, response, lookup>>

NextOwned == \E w \in HookTasks : HW_Call(w)

SpecOwned == InitOwned /\ [][NextOwned]_vars

\* C30: handle_webhook(tenant, event) acts only on mappings of that
\* tenant: the mapping whose Teams conversation got the message or the
\* closed notice, and every mapping the call marked resolved, has
\* tenant_id = tenant.id.
C30_OnlyOwnMappings ==
    called.call = "handle_webhook" =>
       /\ \A w \in HookTasks :
             hook[w].result \in {"notified", "delivered"} =>
                \A m \in hook[w].mapping : m.tenant_id = called.tenant.id
       /\ \A r \in conversations \ called.before :
             r.tenant_id = called.tenant.id


\* C31: every attachment that has a URL is represented in the message
\* _send_combined_message_to_teams sends, as an image of the card or as a
\* link of the text, each image beyond the first four included.
C31_EveryAttachmentShown ==
    scm.pc = "returned"
    => \A i \in 1..Len(scm.attachments) :
          LET a == scm.attachments[i]
          IN a.url # None
             => /\ scm.out.sent
                /\ \/ InCard(a, scm.out)
                   \/ \E kind \in {"video_link", "file_link", "image_link"} :
                         LinkedAs(kind, a, scm.out)


\* C32: once create_tenant or update_tenant has written new credentials,
\* get_client for the tenant returns no client built from the credentials
\* before the write: a call that is given the tenant's current config
\* returns a client of that config's snapshot.
C32_NoClientOfOldCredentials ==
    ( /\ called.call = "get_client"
      /\ called.value # None
      /\ tenant_row # None
      /\ called.tenant.version = tenant_row.version )
    => called.value.snapshot = tenant_row.version


\* The tenant the endpoints find for the key when the lookup works.
TenantFound == get_tenant(tenant_cache, tenant_row, now, "ok").value

\* An agent message that no handler has seen, or a resolution event: the
\* payloads a handler parses into an event.
ParsedRequests ==
    { req \in Requests :
         \/ req.kind = "conversation_resolution"
         \/ /\ req.kind = "agent_message"
            /\ submitted[req.id] = <<>> }

\* The endpoint passed the event to handle_webhook: the failure of the
\* router was noted, which only Forward does.
Forwarded(st) == st.response.failure = "router_raised"

\* C33: for a tenant with complete API credentials the Freshchat and the
\* Freshdesk endpoint get a webhook handler from the factory and pass every
\* parsed agent message and resolution event to handle_webhook, with or
\* without a webhook public key.
C33_CompleteTenantForwards ==
    ( /\ TenantFound # None
      /\ TenantFound.api )
    => \A req \in ParsedRequests :
          /\ TenantFound.platform = "freshchat"
               => Forwarded(freshchat_webhook(State, tenant_row, "ok", req,
                                              "raises", now, ""))
          /\ TenantFound.platform = "freshdesk"
               => Forwarded(freshdesk_webhook(State, tenant_row, "ok", req,
                                              "raises", now))

\* What holds: a Freshchat tenant with complete API credentials and a
\* webhook public key has every parsed event passed on, as long as the
\* factory holds no entry built from older credentials.
ForwardedWithPublicKey ==
    ( /\ TenantFound # None
      /\ TenantFound.api
      /\ TenantFound.platform = "freshchat"
      /\ TenantFound.webhook_public_key
      /\ factory_cache = None )
    => \A req \in ParsedRequests :
          Forwarded(freshchat_webhook(State, tenant_row, "ok", req,
                                      "raises", now, ""))


(***************************************************************************)
(* Redelivery of an agent message to the Freshchat endpoint: every post    *)
(* notes in `called` what became of it and of the post of the same id      *)
(* before it.                                                              *)
(***************************************************************************)
\* What became of a post: handle_webhook was called and delivered the
\* event, found no mapping or failed; the handler dropped the id as a
\* duplicate; or the request ended before a handler parsed it.
PostOutcome(st, req, routed) ==
    IF st.delivered[req.id] > delivered[req.id] THEN routed
    ELSE IF st.submitted[req.id] # submitted[req.id] THEN "duplicate"
    ELSE "not_parsed"

AgentMessages == { req \in Requests : req.kind = "agent_message" }

\* No post of any message id yet.
NoPosts == [m \in MessageIds |-> ""]

\* A post of an agent message to /api/webhook/freshchat/{key}
\* (freshchat/routes.py 19-94).
FreshchatDelivery ==
    /\ \E db \in DbOutcomes, req \in AgentMessages, routed \in RouterOutcomes :
          LET st == freshchat_webhook(State, tenant_row, db, req, routed, now, "")
              posts == IF called.call = "freshchat_webhook"
                       THEN [called.before EXCEPT ![called.value.id] = called.cause]
                       ELSE NoPosts
          IN /\ DbAsked(db)
             /\ Postable(req)
             /\ Becomes(st)
             /\ called' = [NoCall EXCEPT !.call = "freshchat_webhook",
                                         !.value = req,
                                         !.cause = PostOutcome(st, req, routed),
                                         !.before = posts]
    /\ UNCHANGED <<routerVars, swr, scm, pap, dedup, now, tenant_row,
                   zendesk_webhook_handlers, lookup>>

InitRedelivery ==
    /\ RouterInit
    /\ RetryInit
    /\ scm = IdleCombined
    /\ pap = IdlePipeline
    /\ dedup = IdleDedup
    /\ WebhookInit

NextRedelivery == Tick \/ FreshchatDelivery

SpecRedelivery == InitRedelivery /\ [][NextRedelivery]_vars

\* The last post was of an agent message id whose post before it was
\* parsed less than the dedup TTL earlier and had the outcome `first`.
RedeliveredAfter(first) ==
    /\ called.call = "freshchat_webhook"
    /\ LET m == called.value.id
           n == Len(submitted[m])
       IN /\ called.before[m] \in first
          /\ called.cause # "not_parsed"
          /\ n >= 2
          /\ submitted[m][n] - submitted[m][n - 1] < DEDUP_TTL_SECONDS

\* C34: a message id counts as processed only when its event was delivered
\* to chat: a redelivery within the TTL of an id whose first delivery found
\* no mapping or failed in the router is passed to handle_webhook again.
C34_RedeliveryAfterFailure ==
    RedeliveredAfter({"no_mapping", "raises"}) => called.cause \in RouterOutcomes

\* What holds: a redelivery within the TTL to the handler that parsed the
\* first post is dropped whatever became of the first post.
RedeliveryDropped ==
    ( /\ RedeliveredAfter(RouterOutcomes)
      /\ factory_cache # None
      /\ factory_cache.cached_at <= submitted[called.value.id][1] )
    => called.cause = "duplicate"


\* C35: of two handle_teams_message tasks that are under way at the same
\* time for one Teams conversation, neither forcing a new conversation and
\* both on the create path (their lookups found no open mapping), at most
\* one has called createConversation.
C35_OneCreatePerKey ==
    \A h1, h2 \in ChatTasks :
       ( /\ h1 # h2
         /\ chat[h1].pc \notin {"idle", "done"}
         /\ chat[h2].pc \notin {"idle", "done"}
         /\ chat[h1].teams_conversation_id = chat[h2].teams_conversation_id
         /\ chat[h1].path = "create" /\ chat[h2].path = "create"
         /\ ~chat[h1].force_new /\ ~chat[h2].force_new )
       => ~(chat[h1].created /\ chat[h2].created)

=============================================================================
